---- MODULE Spec2Model ----
(***************************************************************************)
(* State-machine model of the sewenew/cache library: LruCache, SlruCache,  *)
(* LfuCache and LirsCache.  One cache object is constructed in the initial *)
(* state (variable sel says which class); every action is one public       *)
(* member function call (set / get / del) on that object.                  *)
(*                                                                         *)
(* Modelling conventions                                                   *)
(*  - std::list<T> is a sequence, head of the list = index 1.              *)
(*  - std::unordered_map<Key, list::iterator> is modelled by its key set;  *)
(*    the iterator stored under key k designates the list node that was    *)
(*    created with key k (std::list iterators stay valid across splice).   *)
(*  - std::optional<Value>: None stands for std::nullopt.                  *)
(*  - assert(...): the operation is computed as an NDEBUG build executes   *)
(*    it and the labels of the violated assertions are collected; a build  *)
(*    with assertions enabled aborts instead (mode = "aborted").           *)
(***************************************************************************)
EXTENDS Integers, Sequences, FiniteSets, TLC

\* ------------------------------------------------------------------ bounds
\* Keys are 1..MaxKey (1..MaxLirsKey for LirsCache).
MaxKey == 4

MaxLirsKey == 3

\* Constructor capacities are 0..MaxCap (0..MaxLfuCap for LfuCache).
MaxCap == 3

MaxLfuCap == 2

\* Stands for std::numeric_limits<std::size_t>::max(), the frequency at
\* which LfuCache saturates.
FreqMax == 3

RatioDen == 4

Keys == 1..MaxKey

LirsKeys == 1..MaxLirsKey

AllKeys == Keys \cup LirsKeys

\* Constructor ratios are rn / RatioDen for rn in RatioNums (covers <= 0 and >= 1).
RatioNums == (0 - 1)..(RatioDen + 1)

\* Two distinguishable values per key; the caches never inspect a value.
Vals(k) == {10 * k, 10 * k + 1}

None == 0

Caches == {"lru", "slru", "lfu", "lirs"}

\* ------------------------------------------------------- sequence helpers
KeysOf(list) == {list[i].key : i \in 1..Len(list)}

\* The node carrying key k (what the iterator stored under k designates).
NodeOf(list, k) == list[CHOOSE i \in 1..Len(list) : list[i].key = k]

\* std::list::erase of the node carrying key k.
EraseKey(list, k) == SelectSeq(list, LAMBDA e : e.key # k)

Front(list) == list[1]

Back(list) == list[Len(list)]

PopBack(list) == SubSeq(list, 1, Len(list) - 1)

PopFront(list) == SubSeq(list, 2, Len(list))

\* ------------------------------------------------------------ LruCacheImpl
KeyValue(k, v) == [key |-> k, value |-> v]

NewImpl(c) == [kv_list |-> <<>>, key_map |-> {}, capacity |-> c]

\* Mutant of ImplTouch: the node is put at the front and the back node is
\* dropped to make room for it.
ImplTouch_dropBack(seg, k) ==
    LET l1 == <<NodeOf(seg.kv_list, k)>> \o PopBack(seg.kv_list)
    IN  [seg EXCEPT !.kv_list = l1, !.key_map = KeysOf(l1)]

\* LruCacheImpl::_touch: splice the node to the front of its own list.
ImplTouch(seg, k) ==
    [seg EXCEPT !.kv_list = <<NodeOf(seg.kv_list, k)>> \o EraseKey(seg.kv_list, k)]

ImplFind(seg, k) == k \in seg.key_map

ImplIsFull(seg) == Cardinality(seg.key_map) > seg.capacity

\* Mutant of ImplGet: the value is returned without touching the entry.
ImplGet_noTouch(seg, k) ==
    IF k \notin seg.key_map
    THEN [seg |-> seg, ret |-> None]
    ELSE [seg |-> seg, ret |-> NodeOf(seg.kv_list, k).value]

\* LruCacheImpl::get: [seg, ret].
ImplGet(seg, k) ==
    IF k \notin seg.key_map
    THEN [seg |-> seg, ret |-> None]
    ELSE LET t == ImplTouch(seg, k)
         IN  [seg |-> t, ret |-> NodeOf(t.kv_list, k).value]

\* Mutant of ImplAdd: on overflow the newest (front) entry is dropped.
ImplAdd_evictFront(seg, k, v) ==
    LET l1 == <<KeyValue(k, v)>> \o seg.kv_list
        m1 == seg.key_map \cup {k}
    IN  IF Cardinality(m1) > seg.capacity
        THEN [seg EXCEPT !.kv_list = PopFront(l1), !.key_map = m1 \ {Front(l1).key}]
        ELSE [seg EXCEPT !.kv_list = l1, !.key_map = m1]

\* Mutant of ImplAdd: the overflow test is off by one (>= instead of >).
ImplAdd_offByOne(seg, k, v) ==
    LET l1 == <<KeyValue(k, v)>> \o seg.kv_list
        m1 == seg.key_map \cup {k}
    IN  IF Cardinality(m1) > seg.capacity + 1
        THEN [seg EXCEPT !.kv_list = PopBack(l1), !.key_map = m1 \ {Back(l1).key}]
        ELSE [seg EXCEPT !.kv_list = l1, !.key_map = m1]

\* LruCacheImpl::add: emplace_front, then evict the back on overflow.
ImplAdd(seg, k, v) ==
    LET l1 == <<KeyValue(k, v)>> \o seg.kv_list
        m1 == seg.key_map \cup {k}
    IN  IF Cardinality(m1) > seg.capacity
        THEN [seg EXCEPT !.kv_list = PopBack(l1), !.key_map = m1 \ {Back(l1).key}]
        ELSE [seg EXCEPT !.kv_list = l1, !.key_map = m1]

\* The assert at the end of LruCacheImpl::add.
ImplAddAssert(seg) ==
    /\ Cardinality(seg.key_map) <= seg.capacity
    /\ Cardinality(seg.key_map) = Len(seg.kv_list)

\* Mutant of ImplUpdate: the entry is touched but the value is not stored.
ImplUpdate_keepOld(seg, k, v) == ImplTouch(seg, k)

\* LruCacheImpl::update: overwrite the value, then _touch.
ImplUpdate(seg, k, v) ==
    LET l1 == [i \in 1..Len(seg.kv_list) |->
                 IF seg.kv_list[i].key = k THEN KeyValue(k, v) ELSE seg.kv_list[i]]
    IN  ImplTouch([seg EXCEPT !.kv_list = l1], k)

\* Mutant of ImplDel: when the key is absent the back entry is deleted.
ImplDel_orBack(seg, k) ==
    IF k \in seg.key_map
    THEN [seg |-> [seg EXCEPT !.kv_list = EraseKey(seg.kv_list, k),
                              !.key_map = seg.key_map \ {k}],
          ret |-> TRUE]
    ELSE IF seg.kv_list = <<>> THEN [seg |-> seg, ret |-> FALSE]
    ELSE [seg |-> [seg EXCEPT !.kv_list = PopBack(seg.kv_list),
                              !.key_map = seg.key_map \ {Back(seg.kv_list).key}],
          ret |-> TRUE]

\* LruCacheImpl::del: [seg, ret] with ret = TRUE iff some item was deleted.
ImplDel(seg, k) ==
    IF k \in seg.key_map
    THEN [seg |-> [seg EXCEPT !.kv_list = EraseKey(seg.kv_list, k),
                              !.key_map = seg.key_map \ {k}],
          ret |-> TRUE]
    ELSE [seg |-> seg, ret |-> FALSE]

\* Mutant: the moved item is copied, the source keeps it.
ImplMoveItem_copy(src, k, dest) ==
    [src  |-> src,
     dest |-> [dest EXCEPT !.kv_list = <<NodeOf(src.kv_list, k)>> \o dest.kv_list,
                           !.key_map = dest.key_map \cup {k}]]

\* LruCacheImpl::move_item: splice the node of key k to the front of dest.
\* Result: [src, dest].
ImplMoveItem(src, k, dest) ==
    [src  |-> [src EXCEPT !.kv_list = EraseKey(src.kv_list, k),
                          !.key_map = src.key_map \ {k}],
     dest |-> [dest EXCEPT !.kv_list = <<NodeOf(src.kv_list, k)>> \o dest.kv_list,
                           !.key_map = dest.key_map \cup {k}]]

\* LruCacheImpl::move_lru_item: move_item of the back node.
ImplMoveLruItem(src, dest) == ImplMoveItem(src, Back(src.kv_list).key, dest)

\* LruCacheImpl::mru_item: the front node.
ImplMruItem(seg) == Front(seg.kv_list)

\* ------------------------------------------------------------- constructors
\* static_cast<std::size_t>(capacity * ratio) for ratio = rn / RatioDen >= 0
\* (dyadic ratios: the double product is exact).
SubSize(c, rn) == (c * rn) \div RatioDen

\* LruCacheImpl::set_capacity: throws on capacity 0.
SetCapacityThrows(c) == c = 0

\* -------------------------------------------------------------------- state
VARIABLES
    sel,             \* which class was constructed
    args,            \* history: the constructor's arguments, capacity and
                     \* (SlruCache, LirsCache) ratio = args.ratio / RatioDen
    mode,            \* "run", "ndebug" (an assert failed and was compiled out),
                     \* "aborted" (an assert failed), "error" (constructor threw)
    fail,            \* labels of the assertions violated by the last call
    cache,           \* LruCache::_cache
    probation_seg,   \* SlruCache::_probation_seg
    protected_seg,   \* SlruCache::_protected_seg
    last,            \* history: per key that still has an entry somewhere in
                     \* the object (in LirsCache: an entry that holds a value),
                     \* the value of its most recent set, or None if its most
                     \* recent set or del was a del; None for every other key
    used,            \* history: the resident keys by most recent set or
                     \* successful get, most recent first (LRU and LFU runs)
    frequency_list,  \* LfuCache::_frequency_list
    key_map,         \* LfuCache::_key_map
    capacity,        \* LfuCache::_capacity
    hits,            \* history: per resident key, the number of successful set
                     \* and get calls since its admission, capped at FreqMax
    entered,         \* history: the resident keys by the time their hit count
                     \* last changed (admission included), earliest first
    pc9,             \* position in LfuScript while the calls follow it, else -1
    stack_s,         \* LirsCache::_stack_s
    list_q,          \* LirsCache::_list_q
    lirs_cnt         \* LirsCache::_lirs_cnt

lruVars == <<cache>>

slruVars == <<probation_seg, protected_seg>>

lfuVars == <<frequency_list, key_map, capacity, hits, entered, pc9>>

lirsVars == <<stack_s, list_q, lirs_cnt>>

vars == <<sel, args, mode, fail, last, used, lruVars, slruVars, lfuVars, lirsVars>>

IdleLru == cache = NewImpl(0)

IdleSlru == probation_seg = NewImpl(0) /\ protected_seg = NewImpl(0)

IdleLfu ==
    /\ frequency_list = <<>> /\ key_map = {} /\ capacity = 0
    /\ hits = [k \in AllKeys |-> 0] /\ entered = <<>> /\ pc9 = 0 - 1

IdleLirs ==
    /\ stack_s = [list |-> <<>>, map |-> {}, capacity |-> 0]
    /\ list_q = [list |-> <<>>, map |-> {}, capacity |-> 0]
    /\ lirs_cnt = 0

\* The history variables of a freshly constructed object.
InitHistory ==
    /\ fail = {} /\ last = [k \in AllKeys |-> None] /\ used = <<>>

Running == mode \in {"run", "ndebug"}

\* History of set/del: sets[k] is the new record of key k (v for set(k, v),
\* None for del(k)); only keys in `entries` keep their record.
Record(l, k, v, entries) ==
    [x \in AllKeys |-> IF x \notin entries THEN None ELSE IF x = k THEN v ELSE l[x]]

\* Most-recent-first history update, kept to the keys in `resident`.
Use(u, k, resident) == SelectSeq(<<k>> \o SelectSeq(u, LAMBDA x : x # k),
                                 LAMBDA x : x \in resident)

Restrict(u, resident) == SelectSeq(u, LAMBDA x : x \in resident)

\* ---------------------------------------------------------------- LruCache
\* The keys that have an entry in the list or the index of a segment.
LruEntries(seg) == seg.key_map \cup KeysOf(seg.kv_list)

InitLru ==
    \E c \in 0..MaxCap :
        /\ sel = "lru" /\ args = [capacity |-> c]
        /\ mode = IF SetCapacityThrows(c) THEN "error" ELSE "run"
        /\ cache = NewImpl(c)
        /\ IdleSlru /\ IdleLfu /\ IdleLirs /\ InitHistory

\* LruCache::set
LruSetOp(seg, k, v) ==
    IF ImplFind(seg, k) THEN ImplUpdate(seg, k, v) ELSE ImplAdd(seg, k, v)

LruSet(k, v) ==
    /\ sel = "lru" /\ Running
    /\ cache' = LruSetOp(cache, k, v)
    /\ fail' = IF ImplFind(cache, k) \/ ImplAddAssert(cache') THEN {} ELSE {"add"}
    /\ mode' = IF fail' = {} THEN mode ELSE "ndebug"
    /\ last' = Record(last, k, v, LruEntries(cache'))
    /\ used' = Use(used, k, cache'.key_map)
    /\ UNCHANGED <<sel, args, slruVars, lfuVars, lirsVars>>

\* LruCache::get
LruGet(k) ==
    /\ sel = "lru" /\ Running
    /\ LET r == ImplGet(cache, k)
       IN  /\ cache' = r.seg
           /\ used' = IF r.ret # None THEN Use(used, k, r.seg.key_map) ELSE used
    /\ fail' = {}
    /\ UNCHANGED <<sel, args, mode, last, slruVars, lfuVars, lirsVars>>

\* LruCache::del
LruDel(k) ==
    /\ sel = "lru" /\ Running
    /\ cache' = ImplDel(cache, k).seg
    /\ last' = Record(last, k, None, LruEntries(cache'))
    /\ fail' = {}
    /\ used' = Restrict(used, cache'.key_map)
    /\ UNCHANGED <<sel, args, mode, slruVars, lfuVars, lirsVars>>

NextLru ==
    \/ \E k \in Keys : \E v \in Vals(k) : LruSet(k, v)
    \/ \E k \in Keys : LruGet(k)
    \/ \E k \in Keys : LruDel(k)

SpecLru == InitLru /\ [][NextLru]_vars

\* --------------------------------------------------------------- SlruCache
\* Mutant: _calc_size without the check of the two sizes against 0.
CalcSizeThrows_noZeroCheck(c, rn) ==
    \/ c = 0
    \/ rn < 0 \/ rn > RatioDen

\* SlruCache::_calc_size: TRUE iff it throws.
CalcSizeThrows(c, rn) ==
    \/ c = 0
    \/ rn < 0 \/ rn > RatioDen
    \/ SubSize(c, rn) = 0 \/ c - SubSize(c, rn) = 0

InitSlru ==
    \E c \in 0..MaxCap, rn \in RatioNums :
        /\ sel = "slru" /\ args = [capacity |-> c, ratio |-> rn]
        /\ mode = IF CalcSizeThrows(c, rn) THEN "error" ELSE "run"
        /\ probation_seg = NewImpl(IF CalcSizeThrows(c, rn) THEN 0 ELSE SubSize(c, rn))
        /\ protected_seg = NewImpl(IF CalcSizeThrows(c, rn) THEN 0 ELSE c - SubSize(c, rn))
        /\ IdleLru /\ IdleLfu /\ IdleLirs /\ InitHistory

\* Mutant: the protected overflow is evicted instead of moved back to probation.
MoveFromProbationToProtected_drop(prob, prot, k) ==
    LET m == ImplMoveItem(prob, k, prot)
    IN  IF ImplIsFull(m.dest)
        THEN [prob |-> m.src, prot |-> ImplDel(m.dest, Back(m.dest.kv_list).key).seg]
        ELSE [prob |-> m.src, prot |-> m.dest]

\* Mutant: no overflow handling after the promotion.
MoveFromProbationToProtected_noCap(prob, prot, k) ==
    LET m == ImplMoveItem(prob, k, prot)
    IN  [prob |-> m.src, prot |-> m.dest]

\* SlruCache::_move_from_probation_to_protected.  Result: [prob, prot].
MoveFromProbationToProtected(prob, prot, k) ==
    LET m == ImplMoveItem(prob, k, prot)
    IN  IF ImplIsFull(m.dest)
        THEN LET b == ImplMoveLruItem(m.dest, m.src)
             IN  [prob |-> b.dest, prot |-> b.src]
        ELSE [prob |-> m.src, prot |-> m.dest]

\* _protected_seg.mru_item()->value = value
SetMruValue(seg, v) ==
    [seg EXCEPT !.kv_list = <<KeyValue(Front(seg.kv_list).key, v)>> \o PopFront(seg.kv_list)]

\* Mutant of SlruSetOp: a new key is admitted straight into the protected segment.
SlruSetOp_admitProtected(prob, prot, k, v) ==
    IF ImplFind(prot, k)
    THEN [prob |-> prob, prot |-> ImplUpdate(prot, k, v)]
    ELSE IF ImplFind(prob, k)
         THEN LET m == MoveFromProbationToProtected(prob, prot, k)
              IN  [prob |-> m.prob, prot |-> SetMruValue(m.prot, v)]
         ELSE [prob |-> prob, prot |-> ImplAdd(prot, k, v)]

\* SlruCache::set.  Result: [prob, prot].
SlruSetOp(prob, prot, k, v) ==
    IF ImplFind(prot, k)
    THEN [prob |-> prob, prot |-> ImplUpdate(prot, k, v)]
    ELSE IF ImplFind(prob, k)
         THEN LET m == MoveFromProbationToProtected(prob, prot, k)
              IN  [prob |-> m.prob, prot |-> SetMruValue(m.prot, v)]
         ELSE [prob |-> ImplAdd(prob, k, v), prot |-> prot]

\* SlruCache::get.  Result: [prob, prot, ret].
SlruGetOp(prob, prot, k) ==
    LET g == ImplGet(prot, k)
    IN  IF g.ret # None
        THEN [prob |-> prob, prot |-> g.seg, ret |-> g.ret]
        ELSE IF ImplFind(prob, k)
             THEN LET m == MoveFromProbationToProtected(prob, g.seg, k)
                  IN  [prob |-> m.prob, prot |-> m.prot, ret |-> ImplMruItem(m.prot).value]
             ELSE [prob |-> prob, prot |-> g.seg, ret |-> None]

\* SlruCache::del.  Result: [prob, prot].
SlruDelOp(prob, prot, k) ==
    LET d == ImplDel(prob, k)
    IN  IF ~d.ret
        THEN [prob |-> d.seg, prot |-> ImplDel(prot, k).seg]
        ELSE [prob |-> d.seg, prot |-> prot]

SlruSet(k, v) ==
    /\ sel = "slru" /\ Running
    /\ LET r == SlruSetOp(probation_seg, protected_seg, k, v)
       IN  /\ probation_seg' = r.prob
           /\ protected_seg' = r.prot
           /\ fail' = IF \/ ImplFind(protected_seg, k) \/ ImplFind(probation_seg, k)
                         \/ ImplAddAssert(r.prob)
                      THEN {} ELSE {"add"}
    /\ mode' = IF fail' = {} THEN mode ELSE "ndebug"
    /\ last' = Record(last, k, v, LruEntries(probation_seg') \cup LruEntries(protected_seg'))
    /\ UNCHANGED <<sel, args, used, lruVars, lfuVars, lirsVars>>

SlruGet(k) ==
    /\ sel = "slru" /\ Running
    /\ LET r == SlruGetOp(probation_seg, protected_seg, k)
       IN  /\ probation_seg' = r.prob
           /\ protected_seg' = r.prot
    /\ fail' = {}
    /\ UNCHANGED <<sel, args, mode, last, used, lruVars, lfuVars, lirsVars>>

SlruDel(k) ==
    /\ sel = "slru" /\ Running
    /\ LET r == SlruDelOp(probation_seg, protected_seg, k)
       IN  /\ probation_seg' = r.prob
           /\ protected_seg' = r.prot
    /\ last' = Record(last, k, None, LruEntries(probation_seg') \cup LruEntries(protected_seg'))
    /\ fail' = {}
    /\ UNCHANGED <<sel, args, mode, used, lruVars, lfuVars, lirsVars>>

NextSlru ==
    \/ \E k \in Keys : \E v \in Vals(k) : SlruSet(k, v)
    \/ \E k \in Keys : SlruGet(k)
    \/ \E k \in Keys : SlruDel(k)

SpecSlru == InitSlru /\ [][NextSlru]_vars

\* ---------------------------------------------------------------- LfuCache
FrequencyNode(f) == [frequency |-> f, items |-> <<>>]

LfuItem(k, v, f) == [key |-> k, value |-> v, frequency_node |-> f]

\* The keys that have an entry in a bucket or in the index.
LfuEntries(fl, map) == map \cup UNION {KeysOf(fl[i].items) : i \in 1..Len(fl)}

\* The item the iterator _key_map[k] designates.
LfuItemOf(fl, k) ==
    NodeOf(fl[CHOOSE i \in 1..Len(fl) : k \in KeysOf(fl[i].items)].items, k)

\* The node an item's frequency_node iterator designates (nodes are told
\* apart by their frequency, which never changes after creation).
NodeIdx(fl, f) == CHOOSE i \in 1..Len(fl) : fl[i].frequency = f

\* LfuCache::_is_full
LfuIsFull(map, c) == Cardinality(map) = c

\* LfuCache::_add_node: insert a node of frequency f before position pos.
AddNode(fl, pos, f) ==
    SubSeq(fl, 1, pos - 1) \o <<FrequencyNode(f)>> \o SubSeq(fl, pos, Len(fl))

EraseNode(fl, i) == SubSeq(fl, 1, i - 1) \o SubSeq(fl, i + 1, Len(fl))

\* LfuCache::_add_item: push_back into node ni, back-reference set.
AddItem(fl, ni, k, v) ==
    [fl EXCEPT ![ni].items = Append(@, LfuItem(k, v, fl[ni].frequency))]

\* Mutant: the frequency is incremented without the check for the maximum.
NextNodeFrequency_noCap(f) == f + 1

\* Mutant: the frequency wraps around to 0 instead of saturating.
NextNodeFrequency_wrap(f) == (f + 1) % (FreqMax + 1)

\* LfuCache::_next_node_frequency, with FreqMax for
\* std::numeric_limits<std::size_t>::max().
NextNodeFrequency(f) == IF f = FreqMax THEN f ELSE f + 1

\* Mutant: the source node is kept when its item list became empty.
MoveItem_keepEmpty(fl, di, si, k) ==
    LET item == [NodeOf(fl[si].items, k) EXCEPT !.frequency_node = fl[di].frequency]
        fl1  == [fl EXCEPT ![si].items = EraseKey(@, k)]
    IN  [fl1 EXCEPT ![di].items = Append(@, item)]

\* Mutant: the moved item is put at the front of the destination bucket.
MoveItem_front(fl, di, si, k) ==
    LET item == [NodeOf(fl[si].items, k) EXCEPT !.frequency_node = fl[di].frequency]
        fl1  == [fl EXCEPT ![si].items = EraseKey(@, k)]
        fl2  == [fl1 EXCEPT ![di].items = <<item>> \o @]
    IN  IF fl2[si].items = <<>> THEN EraseNode(fl2, si) ELSE fl2

\* LfuCache::_move_item: splice the item of key k from node si to the back
\* of node di; erase node si if it became empty.
MoveItem(fl, di, si, k) ==
    LET item == [NodeOf(fl[si].items, k) EXCEPT !.frequency_node = fl[di].frequency]
        fl1  == [fl EXCEPT ![si].items = EraseKey(@, k)]
        fl2  == [fl1 EXCEPT ![di].items = Append(@, item)]
    IN  IF fl2[si].items = <<>> THEN EraseNode(fl2, si) ELSE fl2

\* Mutant: a hit leaves the item where it is.
LfuTouch_none(fl, k) == fl

\* LfuCache::_touch
LfuTouch(fl, k) ==
    LET si == NodeIdx(fl, LfuItemOf(fl, k).frequency_node)
        f  == NextNodeFrequency(fl[si].frequency)
    IN  IF si = Len(fl)
        THEN IF f > fl[si].frequency
             THEN MoveItem(AddNode(fl, si + 1, f), si + 1, si, k)
             ELSE MoveItem(fl, si, si, k)
        ELSE IF fl[si + 1].frequency # f
             THEN MoveItem(AddNode(fl, si + 1, f), si + 1, si, k)
             ELSE MoveItem(fl, si + 1, si, k)

\* Mutant: the most recently added item of the head bucket is evicted.
LfuEvict_back(fl, map) ==
    LET victim == Back(fl[1].items).key
        fl1    == [fl EXCEPT ![1].items = PopBack(@)]
    IN  [fl  |-> IF fl1[1].items = <<>> THEN EraseNode(fl1, 1) ELSE fl1,
         map |-> map \ {victim}]

\* Mutant: the highest-frequency bucket is evicted from.
LfuEvict_tail(fl, map) ==
    LET n      == Len(fl)
        victim == Front(fl[n].items).key
        fl1    == [fl EXCEPT ![n].items = PopFront(@)]
    IN  [fl  |-> IF fl1[n].items = <<>> THEN EraseNode(fl1, n) ELSE fl1,
         map |-> map \ {victim}]

\* LfuCache::_evict: drop the front item of the head node.  Result [fl, map].
LfuEvict(fl, map) ==
    LET victim == Front(fl[1].items).key
        fl1    == [fl EXCEPT ![1].items = PopFront(@)]
    IN  [fl  |-> IF fl1[1].items = <<>> THEN EraseNode(fl1, 1) ELSE fl1,
         map |-> map \ {victim}]

LfuSetValue(fl, k, v) ==
    [i \in 1..Len(fl) |->
        [fl[i] EXCEPT !.items = [j \in 1..Len(fl[i].items) |->
            IF fl[i].items[j].key = k THEN [fl[i].items[j] EXCEPT !.value = v]
                                      ELSE fl[i].items[j]]]]

\* Mutant: a full cache admits the new key without evicting.
LfuSetOp_noEvict(fl, map, c, k, v) ==
    IF k \notin map
    THEN LET f == IF fl = <<>> \/ Front(fl).frequency # 1 THEN AddNode(fl, 1, 1) ELSE fl
         IN  [fl |-> AddItem(f, 1, k, v), map |-> map \cup {k}]
    ELSE [fl |-> LfuSetValue(LfuTouch(fl, k), k, v), map |-> map]

\* Mutant: the value of a resident key is not overwritten.
LfuSetOp_keepOld(fl, map, c, k, v) ==
    IF k \notin map
    THEN LET e == IF LfuIsFull(map, c) THEN LfuEvict(fl, map) ELSE [fl |-> fl, map |-> map]
             f == IF e.fl = <<>> \/ Front(e.fl).frequency # 1
                  THEN AddNode(e.fl, 1, 1) ELSE e.fl
         IN  [fl |-> AddItem(f, 1, k, v), map |-> e.map \cup {k}]
    ELSE [fl |-> LfuTouch(fl, k), map |-> map]

\* LfuCache::set.  Result [fl, map].
LfuSetOp(fl, map, c, k, v) ==
    IF k \notin map
    THEN LET e == IF LfuIsFull(map, c) THEN LfuEvict(fl, map) ELSE [fl |-> fl, map |-> map]
             f == IF e.fl = <<>> \/ Front(e.fl).frequency # 1
                  THEN AddNode(e.fl, 1, 1) ELSE e.fl
         IN  [fl |-> AddItem(f, 1, k, v), map |-> e.map \cup {k}]
    ELSE [fl |-> LfuSetValue(LfuTouch(fl, k), k, v), map |-> map]

\* The asserts of LfuCache::set on the absent-key path (lines 75 and 79).
LfuSetAsserts(fl, map, c) ==
    LET e == IF LfuIsFull(map, c) THEN LfuEvict(fl, map) ELSE [fl |-> fl, map |-> map]
    IN  e.fl = <<>> \/ Front(e.fl).frequency >= 1

\* LfuCache::get.  Result [fl, ret].
LfuGetOp(fl, map, k) ==
    IF k \in map
    THEN LET t == LfuTouch(fl, k) IN [fl |-> t, ret |-> LfuItemOf(t, k).value]
    ELSE [fl |-> fl, ret |-> None]

\* LfuCache::del.  Result [fl, map].
LfuDelOp(fl, map, k) ==
    IF k \in map
    THEN LET ni  == NodeIdx(fl, LfuItemOf(fl, k).frequency_node)
             fl1 == [fl EXCEPT ![ni].items = EraseKey(@, k)]
         IN  [fl  |-> IF fl1[ni].items = <<>> THEN EraseNode(fl1, ni) ELSE fl1,
              map |-> map \ {k}]
    ELSE [fl |-> fl, map |-> map]

\* The call sequence of the LFU example (capacity 2) up to set(4, 40).
LfuScript ==
    << <<"set", 1, 10>>, <<"set", 2, 20>>, <<"get", 1, 0>>, <<"set", 3, 30>>,
       <<"get", 2, 0>>, <<"get", 3, 0>>, <<"get", 3, 0>>, <<"get", 1, 0>>,
       <<"set", 4, 40>> >>

ScriptStep(pc, call) ==
    IF pc >= 0 /\ pc < Len(LfuScript) /\ LfuScript[pc + 1] = call THEN pc + 1 ELSE 0 - 1

\* History updates of a hit (successful set or get) on key k.
HitHits(h, k) == [h EXCEPT ![k] = IF @ < FreqMax THEN @ + 1 ELSE @]

HitEntered(e, h, k) ==
    IF h[k] < FreqMax THEN Append(SelectSeq(e, LAMBDA x : x # k), k) ELSE e

InitLfu ==
    \E c \in 0..MaxLfuCap :
        /\ sel = "lfu" /\ args = [capacity |-> c]
        /\ mode = IF c = 0 THEN "error" ELSE "run"
        /\ frequency_list = <<>> /\ key_map = {} /\ capacity = c
        /\ hits = [k \in AllKeys |-> 0] /\ entered = <<>>
        /\ pc9 = IF c = 2 THEN 0 ELSE 0 - 1
        /\ IdleLru /\ IdleSlru /\ IdleLirs /\ InitHistory

LfuSet(k, v) ==
    /\ sel = "lfu" /\ Running
    /\ LET r == LfuSetOp(frequency_list, key_map, capacity, k, v)
       IN  /\ frequency_list' = r.fl
           /\ key_map' = r.map
           /\ hits' = [x \in AllKeys |->
                         IF x \notin r.map THEN 0
                         ELSE IF x # k THEN hits[x]
                         ELSE IF k \in key_map THEN HitHits(hits, k)[k] ELSE 1]
           /\ entered' = Restrict(IF k \in key_map THEN HitEntered(entered, hits, k)
                                                   ELSE Append(entered, k), r.map)
           /\ used' = Use(used, k, r.map)
    /\ fail' = IF k \in key_map \/ LfuSetAsserts(frequency_list, key_map, capacity)
               THEN {} ELSE {"head"}
    /\ mode' = IF fail' = {} THEN mode ELSE "ndebug"
    /\ last' = Record(last, k, v, LfuEntries(frequency_list', key_map'))
    /\ pc9' = ScriptStep(pc9, <<"set", k, v>>)
    /\ UNCHANGED <<sel, args, capacity, lruVars, slruVars, lirsVars>>

LfuGet(k) ==
    /\ sel = "lfu" /\ Running
    /\ LET r == LfuGetOp(frequency_list, key_map, k)
       IN  /\ frequency_list' = r.fl
           /\ hits' = IF r.ret # None THEN HitHits(hits, k) ELSE hits
           /\ entered' = IF r.ret # None THEN HitEntered(entered, hits, k) ELSE entered
           /\ used' = IF r.ret # None THEN Use(used, k, key_map) ELSE used
    /\ fail' = {}
    /\ pc9' = ScriptStep(pc9, <<"get", k, 0>>)
    /\ UNCHANGED <<sel, args, mode, last, key_map, capacity, lruVars, slruVars, lirsVars>>

LfuDel(k) ==
    /\ sel = "lfu" /\ Running
    /\ LET r == LfuDelOp(frequency_list, key_map, k)
       IN  /\ frequency_list' = r.fl
           /\ key_map' = r.map
           /\ hits' = [hits EXCEPT ![k] = 0]
           /\ entered' = Restrict(entered, r.map \ {k})
           /\ used' = Restrict(used, r.map \ {k})
    /\ last' = Record(last, k, None, LfuEntries(frequency_list', key_map'))
    /\ fail' = {}
    /\ pc9' = ScriptStep(pc9, <<"del", k, 0>>)
    /\ UNCHANGED <<sel, args, mode, capacity, lruVars, slruVars, lirsVars>>

NextLfu ==
    \/ \E k \in Keys : \E v \in Vals(k) : LfuSet(k, v)
    \/ \E k \in Keys : LfuGet(k)
    \/ \E k \in Keys : LfuDel(k)

SpecLfu == InitLfu /\ [][NextLfu]_vars

\* --------------------------------------------------------------- LirsCache
\* LirsType
LIR == "LIR"

HIR == "HIR"

HIR_NR == "HIR_NR"

\* LirsQueue::VarValue = std::variant<std::monostate, Value, ItemList::iterator>.
\* An iterator into list Q is recorded by the key of the Q node it designates.
Mono == [tag |-> "monostate", x |-> 0]

ValueOf(v) == [tag |-> "value", x |-> v]

IterTo(k) == [tag |-> "iterator", x |-> k]

LirsItem(k, val, t) == [key |-> k, value |-> val, type |-> t]

NewQueue(c) == [list |-> <<>>, map |-> {}, capacity |-> c]

\* LirsQueue::is_full
QIsFull(qu) == Len(qu.list) >= qu.capacity

\* LirsQueue::add (both overloads): emplace_front and index.
QAdd(qu, k, val, t) ==
    [qu EXCEPT !.list = <<LirsItem(k, val, t)>> \o @, !.map = @ \cup {k}]

\* LirsQueue::remove (all overloads) of the node carrying key k.
QRemove(qu, k) == [qu EXCEPT !.list = EraseKey(@, k), !.map = @ \ {k}]

\* LirsQueue::touch
QTouch(qu, k) == [qu EXCEPT !.list = <<NodeOf(qu.list, k)>> \o EraseKey(qu.list, k)]

\* Mutant: the moved key stays in the index of the source queue.
QMoveItem_keepIndex(src, k, dest) ==
    [src  |-> [src EXCEPT !.list = EraseKey(@, k)],
     dest |-> [dest EXCEPT !.list = <<NodeOf(src.list, k)>> \o @, !.map = @ \cup {k}]]

\* LirsQueue::move_item: splice the node of key k to the front of dest.
\* Result [src, dest].
QMoveItem(src, k, dest) ==
    [src  |-> [src EXCEPT !.list = EraseKey(@, k), !.map = @ \ {k}],
     dest |-> [dest EXCEPT !.list = <<NodeOf(src.list, k)>> \o @, !.map = @ \cup {k}]]

\* Assignment to the fields of the node carrying key k.
QSetItem(qu, k, val, t) ==
    [qu EXCEPT !.list = [i \in 1..Len(qu.list) |->
        IF qu.list[i].key = k THEN LirsItem(k, val, t) ELSE qu.list[i]]]

\* Assignment to the fields of the front node.
QSetFront(qu, val, t) ==
    [qu EXCEPT !.list = <<LirsItem(Front(qu.list).key, val, t)>> \o PopFront(qu.list)]

\* The state of a LirsCache while a member function runs: the two queues,
\* _lirs_cnt and the labels of the assertions violated so far.
LirsState(s, q, cnt, f) == [s |-> s, q |-> q, cnt |-> cnt, fail |-> f]

Failing(st, cond, label) == IF cond THEN st.fail ELSE st.fail \cup {label}

\* Mutant: only an HIR_NR entry at the bottom of S calls for pruning.
ShouldPrune_hirNrOnly(s) == s.list # <<>> /\ Back(s.list).type = HIR_NR

\* LirsCache::_should_prune
ShouldPrune(s) == s.list # <<>> /\ Back(s.list).type # LIR

\* Mutant: pruning is skipped.
PruneStackS_none(st) == st

\* LirsCache::_prune_stack_s
RECURSIVE PruneStackS(_)
PruneStackS(st) ==
    IF ~ShouldPrune(st.s) THEN st
    ELSE LET item == Back(st.s.list)
             q1   == IF item.type = HIR
                     THEN (IF item.key \in st.q.map THEN QRemove(st.q, item.key) ELSE st.q)
                     ELSE st.q
         IN  PruneStackS(LirsState(QRemove(st.s, item.key), q1, st.cnt,
                                   Failing(st, item.type = HIR_NR, "prune")))

\* Mutant: nothing is evicted from the full list Q.
RemoveLruHirItem_skip(st) ==
    [st EXCEPT !.fail = Failing(st, QIsFull(st.q), "remove_lru_full")]

\* Mutant: the evicted key's S-entry is left as a resident HIR.
RemoveLruHirItem_keepType(st) ==
    LirsState(st.s, QRemove(st.q, Back(st.q.list).key), st.cnt,
              Failing(st, QIsFull(st.q), "remove_lru_full"))

\* LirsCache::_remove_lru_hir_item
RemoveLruHirItem(st) ==
    LET lru == Back(st.q.list)
        s1  == IF lru.key \in st.s.map THEN QSetItem(st.s, lru.key, Mono, HIR_NR)
                                       ELSE st.s
    IN  LirsState(s1, QRemove(st.q, lru.key), st.cnt,
                  Failing(st, QIsFull(st.q), "remove_lru_full"))

\* Mutant: the entry moved from list Q to stack S is not counted as an LIR.
MoveHirToStackS_noCount(st, k) ==
    LET qk == NodeOf(st.s.list, k).value.x
        s1 == QRemove(st.s, k)
        m  == QMoveItem(st.q, qk, s1)
        s2 == QSetFront(m.dest, Front(m.dest.list).value, LIR)
    IN  LirsState(s2, m.src, st.cnt,
                  Failing(st, NodeOf(st.s.list, k).value.tag = "iterator", "to_iterator"))

\* LirsCache::_move_hir_to_stack_s for the S-entry of key k.
MoveHirToStackS(st, k) ==
    LET qk == NodeOf(st.s.list, k).value.x
        s1 == QRemove(st.s, k)
        m  == QMoveItem(st.q, qk, s1)
        s2 == QSetFront(m.dest, Front(m.dest.list).value, LIR)
    IN  LirsState(s2, m.src, st.cnt + 1,
                  Failing(st, NodeOf(st.s.list, k).value.tag = "iterator", "to_iterator"))

\* Mutant: the entry demoted to list Q keeps the type LIR.
MoveLruLirToListQ_keepLir(st) ==
    LET p == PruneStackS(st)
        m == QMoveItem(p.s, Back(p.s.list).key, p.q)
    IN  LirsState(m.src, m.dest, p.cnt - 1, p.fail)

\* Mutant: the demoted entry keeps its LIR counter slot (no decrement).
MoveLruLirToListQ_noDec(st) ==
    LET p == PruneStackS(st)
        m == QMoveItem(p.s, Back(p.s.list).key, p.q)
    IN  LirsState(m.src, QSetFront(m.dest, Front(m.dest.list).value, HIR), p.cnt, p.fail)

\* LirsCache::_move_lru_lir_to_list_q
MoveLruLirToListQ(st) ==
    LET f1 == Failing(st, st.cnt = st.s.capacity + 1, "demote_cnt")
        p  == PruneStackS([st EXCEPT !.fail = f1])
        f2 == Failing(p, p.s.list # <<>> /\ Back(p.s.list).type = LIR, "demote_bottom")
        m  == QMoveItem(p.s, Back(p.s.list).key, p.q)
        q1 == QSetFront(m.dest, Front(m.dest.list).value, HIR)
        r  == LirsState(m.src, q1, p.cnt - 1, f2)
    IN  IF p.s.list = <<>>
        THEN [p EXCEPT !.fail = f2]   \* back() of an empty list: not reached
        ELSE [r EXCEPT !.fail = Failing(r, r.cnt = r.s.capacity, "demote_exit")]

\* if (_lirs_cnt > capacity) { assert(!_list_q.is_full()); _move_lru_lir_to_list_q(); }
DemoteIfOver(st) ==
    IF st.cnt > st.s.capacity
    THEN MoveLruLirToListQ([st EXCEPT !.fail = Failing(st, ~QIsFull(st.q), "q_full")])
    ELSE st

\* Mutant: a get that finds an HIR_NR entry moves it to the front of S.
GetFromStackS_touchHirNr(st, k) ==
    IF k \notin st.s.map THEN [st |-> st, ret |-> None]
    ELSE LET item == NodeOf(st.s.list, k)
         IN  IF item.type = HIR_NR
             THEN [st |-> [st EXCEPT !.s = QTouch(st.s, k)], ret |-> None]
             ELSE LET a == IF item.type = LIR
                           THEN [st EXCEPT !.s = QTouch(st.s, k)]
                           ELSE DemoteIfOver(MoveHirToStackS(st, k))
                      p == PruneStackS(a)
                      v == Front(p.s.list).value
                  IN  [st  |-> [p EXCEPT !.fail = Failing(p, v.tag = "value", "to_value")],
                       ret |-> IF v.tag = "value" THEN v.x ELSE None]

\* LirsCache::_get_from_stack_s.  Result [st, ret].
GetFromStackS(st, k) ==
    IF k \notin st.s.map THEN [st |-> st, ret |-> None]
    ELSE LET item == NodeOf(st.s.list, k)
         IN  IF item.type = HIR_NR THEN [st |-> st, ret |-> None]
             ELSE LET a == IF item.type = LIR
                           THEN [st EXCEPT !.s = QTouch(st.s, k)]
                           ELSE DemoteIfOver(MoveHirToStackS(st, k))
                      p == PruneStackS(a)
                      v == Front(p.s.list).value
                  IN  [st  |-> [p EXCEPT !.fail = Failing(p, v.tag = "value", "to_value")],
                       ret |-> IF v.tag = "value" THEN v.x ELSE None]

\* Mutant: a get that hits a key of list Q only leaves Q in its order.
GetFromListQ_noTouch(st, k) ==
    IF k \notin st.q.map THEN [st |-> st, ret |-> None]
    ELSE LET s1 == QAdd(st.s, k, IterTo(k), HIR)
             v  == NodeOf(st.q.list, k).value
         IN  [st  |-> LirsState(s1, st.q, st.cnt, Failing(st, v.tag = "value", "to_value")),
              ret |-> IF v.tag = "value" THEN v.x ELSE None]

\* LirsCache::_get_from_list_q.  Result [st, ret].
GetFromListQ(st, k) ==
    IF k \notin st.q.map THEN [st |-> st, ret |-> None]
    ELSE LET s1 == QAdd(st.s, k, IterTo(k), HIR)
             q1 == QTouch(st.q, k)
             v  == Front(q1.list).value
         IN  [st  |-> LirsState(s1, q1, st.cnt, Failing(st, v.tag = "value", "to_value")),
              ret |-> IF v.tag = "value" THEN v.x ELSE None]

\* Mutant: a get that misses prunes stack S before it returns.
LirsGetOp_pruneOnMiss(st, k) ==
    LET g == GetFromStackS(st, k)
        m == GetFromListQ(g.st, k)
    IN  IF g.ret # None THEN g
        ELSE IF m.ret # None THEN m
        ELSE [st |-> PruneStackS(m.st), ret |-> None]

\* LirsCache::get.  Result [st, ret].
LirsGetOp(st, k) ==
    LET g == GetFromStackS(st, k)
    IN  IF g.ret # None THEN g ELSE GetFromListQ(g.st, k)

\* LirsCache::_hir_nr_to_lir
HirNrToLir(st, k, v) ==
    [st EXCEPT !.s = QTouch(QSetItem(st.s, k, ValueOf(v), LIR), k), !.cnt = @ + 1]

\* Mutant: a hit on a resident HIR in S is only touched, never promoted.
UpdateItemInStackS_noPromote(st, k, v) ==
    LET item == NodeOf(st.s.list, k)
    IN  IF item.type = LIR
        THEN PruneStackS([st EXCEPT !.s = QTouch(QSetItem(st.s, k, ValueOf(v), LIR), k)])
        ELSE IF item.type = HIR
        THEN PruneStackS([st EXCEPT !.s = QTouch(st.s, k),
                                    !.q = QSetItem(st.q, k, ValueOf(v), HIR)])
        ELSE LET h == HirNrToLir(st, k, v)
                 e == IF h.cnt > h.s.capacity /\ QIsFull(h.q) THEN RemoveLruHirItem(h) ELSE h
             IN  PruneStackS(DemoteIfOver(e))

\* LirsCache::_update_item_in_stack_s
UpdateItemInStackS(st, k, v) ==
    LET item == NodeOf(st.s.list, k)
    IN  IF item.type = LIR
        THEN PruneStackS([st EXCEPT !.s = QTouch(QSetItem(st.s, k, ValueOf(v), LIR), k)])
        ELSE IF item.type = HIR
        THEN LET m == MoveHirToStackS(st, k)
             IN  PruneStackS(DemoteIfOver([m EXCEPT !.s = QSetFront(m.s, ValueOf(v), LIR)]))
        ELSE LET h == HirNrToLir(st, k, v)
                 e == IF h.cnt > h.s.capacity /\ QIsFull(h.q) THEN RemoveLruHirItem(h) ELSE h
             IN  PruneStackS(DemoteIfOver(e))

\* LirsCache::_update_item_in_list_q
UpdateItemInListQ(st, k, v) ==
    [st EXCEPT !.q = QTouch(QSetItem(st.q, k, ValueOf(v), NodeOf(st.q.list, k).type), k),
               !.s = QAdd(st.s, k, IterTo(k), HIR)]

\* Mutant: a new key is admitted into a full list Q without evicting.
LirsAdd_noEvict(st, k, v) ==
    IF st.cnt < st.s.capacity
    THEN [st EXCEPT !.s = QAdd(st.s, k, ValueOf(v), LIR), !.cnt = @ + 1]
    ELSE [st EXCEPT !.q = QAdd(st.q, k, ValueOf(v), HIR),
                    !.s = QAdd(st.s, k, IterTo(k), HIR)]

\* Mutant: a new key is always admitted as LIR.
LirsAdd_alwaysLir(st, k, v) ==
    [st EXCEPT !.s = QAdd(st.s, k, ValueOf(v), LIR), !.cnt = @ + 1]

\* LirsCache::_add
LirsAdd(st, k, v) ==
    IF st.cnt < st.s.capacity
    THEN [st EXCEPT !.s = QAdd(st.s, k, ValueOf(v), LIR), !.cnt = @ + 1]
    ELSE LET e == IF QIsFull(st.q) THEN RemoveLruHirItem(st) ELSE st
             f == Failing(e, ~QIsFull(e.q), "q_full")
         IN  [e EXCEPT !.q = QAdd(e.q, k, ValueOf(v), HIR),
                       !.s = QAdd(e.s, k, IterTo(k), HIR),
                       !.fail = f]

\* LirsCache::set
LirsSetOp(st, k, v) ==
    IF k \in st.s.map THEN UpdateItemInStackS(st, k, v)
    ELSE IF k \in st.q.map THEN UpdateItemInListQ(st, k, v)
    ELSE LirsAdd(st, k, v)

\* Mutant: del of a resident HIR removes its Q entry but leaves the S-entry.
DelFromStackS_keepS(st, k) ==
    IF k \notin st.s.map THEN [st |-> st, ret |-> FALSE]
    ELSE LET item == NodeOf(st.s.list, k)
         IN  [st  |-> IF item.type = LIR
                      THEN [st EXCEPT !.s = QRemove(st.s, k), !.cnt = @ - 1]
                      ELSE IF item.type = HIR
                      THEN [st EXCEPT !.q = QRemove(st.q, item.value.x)]
                      ELSE st,
              ret |-> TRUE]

\* Mutant: del of an LIR entry leaves _lirs_cnt as it is.
DelFromStackS_noDec(st, k) ==
    IF k \notin st.s.map THEN [st |-> st, ret |-> FALSE]
    ELSE LET item == NodeOf(st.s.list, k)
         IN  [st  |-> IF item.type = LIR
                      THEN [st EXCEPT !.s = QRemove(st.s, k)]
                      ELSE IF item.type = HIR
                      THEN [st EXCEPT !.q = QRemove(st.q, item.value.x),
                                      !.s = QRemove(st.s, k)]
                      ELSE st,
              ret |-> TRUE]

\* LirsCache::_del_from_stack_s.  Result [st, ret].
DelFromStackS(st, k) ==
    IF k \notin st.s.map THEN [st |-> st, ret |-> FALSE]
    ELSE LET item == NodeOf(st.s.list, k)
         IN  [st  |-> IF item.type = LIR
                      THEN [st EXCEPT !.s = QRemove(st.s, k), !.cnt = @ - 1]
                      ELSE IF item.type = HIR
                      THEN [st EXCEPT !.q = QRemove(st.q, item.value.x),
                                      !.s = QRemove(st.s, k)]
                      ELSE st,
              ret |-> TRUE]

\* Mutant: del leaves the entry of a key that is only in list Q.
DelFromListQ_none(st, k) == st

\* LirsCache::_del_from_list_q
DelFromListQ(st, k) ==
    IF k \in st.q.map THEN [st EXCEPT !.q = QRemove(st.q, k)] ELSE st

\* LirsCache::del
LirsDelOp(st, k) ==
    LET d == DelFromStackS(st, k)
    IN  IF d.ret THEN d.st ELSE DelFromListQ(d.st, k)

\* The keys that have an entry in stack S or list Q.
LirsEntries(st) ==
    st.s.map \cup st.q.map \cup KeysOf(st.s.list) \cup KeysOf(st.q.list)

\* The keys whose entry in stack S or list Q holds a value (LIR entries and
\* the Q entries of resident HIRs; an HIR_NR entry holds none).
LirsHeld(st) ==
    {k \in AllKeys :
        \/ \E i \in 1..Len(st.s.list) :
              st.s.list[i].key = k /\ st.s.list[i].value.tag = "value"
        \/ \E i \in 1..Len(st.q.list) :
              st.q.list[i].key = k /\ st.q.list[i].value.tag = "value"}

\* LirsCache::LirsCache: TRUE iff the constructor throws.
LirsCtorThrows(c, rn) ==
    \/ c = 0
    \/ rn <= 0 \/ rn >= RatioDen
    \/ SubSize(c, rn) = 0 \/ c - SubSize(c, rn) = 0

InitLirs ==
    \E c \in 0..MaxCap, rn \in RatioNums :
        /\ sel = "lirs" /\ args = [capacity |-> c, ratio |-> rn]
        /\ mode = IF LirsCtorThrows(c, rn) THEN "error" ELSE "run"
        /\ stack_s = NewQueue(IF LirsCtorThrows(c, rn) THEN 0 ELSE c - SubSize(c, rn))
        /\ list_q = NewQueue(IF LirsCtorThrows(c, rn) THEN 0 ELSE SubSize(c, rn))
        /\ lirs_cnt = 0
        /\ IdleLru /\ IdleSlru /\ IdleLfu /\ InitHistory

\* The LirsCache object, as the member functions see it at entry.
Lirs == LirsState(stack_s, list_q, lirs_cnt, {})

\* The effect of a completed call with result state r: a build with
\* assertions enabled aborts at a violated assert, an NDEBUG build goes on.
LirsCommit(r) ==
    \/ /\ stack_s' = r.s /\ list_q' = r.q /\ lirs_cnt' = r.cnt
       /\ fail' = r.fail
       /\ mode' = IF r.fail = {} THEN mode ELSE "ndebug"
    \/ /\ r.fail # {} /\ mode = "run"
       /\ mode' = "aborted" /\ fail' = r.fail
       /\ UNCHANGED lirsVars

LirsSet(k, v) ==
    /\ sel = "lirs" /\ Running
    /\ LirsCommit(LirsSetOp(Lirs, k, v))
    /\ last' = IF mode' = "aborted" THEN last
               ELSE Record(last, k, v, LirsHeld(LirsSetOp(Lirs, k, v)))
    /\ UNCHANGED <<sel, args, used, lruVars, slruVars, lfuVars>>

LirsGet(k) ==
    /\ sel = "lirs" /\ Running
    /\ LirsCommit(LirsGetOp(Lirs, k).st)
    /\ last' = IF mode' = "aborted" THEN last
               ELSE [x \in AllKeys |->
                       IF x \in LirsHeld(LirsGetOp(Lirs, k).st) THEN last[x] ELSE None]
    /\ UNCHANGED <<sel, args, used, lruVars, slruVars, lfuVars>>

LirsDel(k) ==
    /\ sel = "lirs" /\ Running
    /\ LirsCommit(LirsDelOp(Lirs, k))
    /\ last' = IF mode' = "aborted" THEN last
               ELSE Record(last, k, None, LirsHeld(LirsDelOp(Lirs, k)))
    /\ UNCHANGED <<sel, args, used, lruVars, slruVars, lfuVars>>

NextLirs ==
    \/ \E k \in LirsKeys : \E v \in Vals(k) : LirsSet(k, v)
    \/ \E k \in LirsKeys : LirsGet(k)
    \/ \E k \in LirsKeys : LirsDel(k)

SpecLirs == InitLirs /\ [][NextLirs]_vars

\* ------------------------------------------------------- all four caches
Init == InitLru \/ InitSlru \/ InitLfu \/ InitLirs

Next == NextLru \/ NextSlru \/ NextLfu \/ NextLirs

Spec == Init /\ [][Next]_vars

\* ------------------------------------------------------------------ claims
\* The keys the calls of the constructed cache range over.
CallKeys == IF sel = "lirs" THEN LirsKeys ELSE Keys

\* What get(k) returns when called in the current state.
GetNow(k) ==
    CASE sel = "lru"  -> ImplGet(cache, k).ret
      [] sel = "slru" -> SlruGetOp(probation_seg, protected_seg, k).ret
      [] sel = "lfu"  -> LfuGetOp(frequency_list, key_map, k).ret
      [] sel = "lirs" -> LirsGetOp(Lirs, k).ret

\* What get(k) returns when called right after set(k, v) in the current state.
GetAfterSet(k, v) ==
    CASE sel = "lru"  -> ImplGet(LruSetOp(cache, k, v), k).ret
      [] sel = "slru" -> LET r == SlruSetOp(probation_seg, protected_seg, k, v)
                         IN  SlruGetOp(r.prob, r.prot, k).ret
      [] sel = "lfu"  -> LET r == LfuSetOp(frequency_list, key_map, capacity, k, v)
                         IN  LfuGetOp(r.fl, r.map, k).ret
      [] sel = "lirs" -> LirsGetOp(LirsSetOp(Lirs, k, v), k).ret

\* C1: in every reachable state of each cache, whatever get(k) returns is
\* either nothing or the value of the most recent set(k, .), and it is nothing
\* when the most recent set-or-del call on k was a del.
C1_GetReturnsLastSet ==
    \A k \in AllKeys : GetNow(k) # None => GetNow(k) = last[k]

\* C1 witness: a LIRS cache in which one key's latest set value is returned
\* by get while another key, deleted after being set, still has an S-entry.
C1_Witness ==
    /\ sel = "lirs" /\ mode = "run"
    /\ \E k \in LirsKeys : last[k] = 10 * k + 1 /\ GetNow(k) = 10 * k + 1
    /\ \E j \in stack_s.map : last[j] = None /\ GetNow(j) = None

\* C2: in every reachable state of each cache, for every key k and value v,
\* get(k) called immediately after set(k, v) returns v.
C2_SetThenGet ==
    Running => \A k \in CallKeys : \A v \in Vals(k) : GetAfterSet(k, v) = v

\* C2 witness: a full LRU cache and an absent key (the admission evicts), and
\* a LIRS cache holding an HIR-NR entry (set turns it into an LIR).
C2_Witness ==
    \/ /\ sel = "lru" /\ Cardinality(cache.key_map) = cache.capacity
       /\ \E k \in Keys : k \notin cache.key_map /\ GetAfterSet(k, 10 * k) = 10 * k
    \/ /\ sel = "lirs" /\ mode = "run"
       /\ \E k \in stack_s.map : /\ NodeOf(stack_s.list, k).type = HIR_NR
                                /\ GetAfterSet(k, 10 * k) = 10 * k

\* The number of items in all buckets of a frequency list.
RECURSIVE LfuSize(_)
LfuSize(fl) == IF fl = <<>> THEN 0 ELSE Len(Front(fl).items) + LfuSize(PopFront(fl))

\* C3: an LruCache or LfuCache constructed with capacity n >= 1 never stores
\* more than n entries (in its index or in its lists).
C3_LruLfuCapacity ==
    /\ sel = "lru" /\ mode # "error" =>
          /\ Cardinality(cache.key_map) <= cache.capacity
          /\ Len(cache.kv_list) <= cache.capacity
    /\ sel = "lfu" /\ mode # "error" =>
          /\ Cardinality(key_map) <= capacity
          /\ LfuSize(frequency_list) <= capacity

\* C3 witness: the LFU example after set(3, 30) was admitted into the full
\* cache of capacity 2.
C3_Witness == sel = "lfu" /\ pc9 = 4 /\ Cardinality(key_map) = capacity

\* C4: in SlruCache the probation segment never holds more than cP entries
\* and the protected segment never more than cQ.
C4_SlruSegmentCapacity ==
    sel = "slru" /\ mode # "error" =>
        /\ Cardinality(probation_seg.key_map) <= probation_seg.capacity
        /\ Len(probation_seg.kv_list) <= probation_seg.capacity
        /\ Cardinality(protected_seg.key_map) <= protected_seg.capacity
        /\ Len(protected_seg.kv_list) <= protected_seg.capacity

\* C4 witness: both segments full, and a get of a probation key (a promotion
\* that overflows protected) leaves both segments full.
C4_Witness ==
    /\ sel = "slru"
    /\ Len(probation_seg.kv_list) = probation_seg.capacity
    /\ Len(protected_seg.kv_list) = protected_seg.capacity
    /\ \E k \in probation_seg.key_map :
          LET r == SlruGetOp(probation_seg, protected_seg, k)
          IN  /\ k \in r.prot.key_map
              /\ Back(protected_seg.kv_list).key \in r.prob.key_map

\* The entries of a queue that have type t.
OfType(qu, t) == {i \in 1..Len(qu.list) : qu.list[i].type = t}

\* The keys some entry of S or Q stores a value for.
LirsValued ==
    {k \in AllKeys : \E i \in 1..Len(stack_s.list) :
          stack_s.list[i].key = k /\ stack_s.list[i].value.tag = "value"}
    \cup {k \in AllKeys : \E i \in 1..Len(list_q.list) :
          list_q.list[i].key = k /\ list_q.list[i].value.tag = "value"}

\* C5: in LirsCache the number of LIR entries never exceeds cL, list Q never
\* holds more than cH entries, and at most cL + cH keys have a stored value.
C5_LirsCapacity ==
    sel = "lirs" /\ mode # "error" =>
        /\ lirs_cnt <= stack_s.capacity
        /\ Cardinality(OfType(stack_s, LIR)) + Cardinality(OfType(list_q, LIR))
              <= stack_s.capacity
        /\ Len(list_q.list) <= list_q.capacity
        /\ Cardinality(list_q.map) <= list_q.capacity
        /\ Cardinality(LirsValued) <= stack_s.capacity + list_q.capacity

\* C5 witness: a LIRS cache with cL LIR entries and a full list Q.
C5_Witness ==
    /\ sel = "lirs" /\ mode = "run"
    /\ Cardinality(OfType(stack_s, LIR)) = stack_s.capacity
    /\ Len(list_q.list) = list_q.capacity
    /\ Cardinality(LirsValued) = stack_s.capacity + list_q.capacity

\* C6 as stated: stack S never holds more than cL + cH entries.
C6_StackBounded ==
    sel = "lirs" => Len(stack_s.list) <= stack_s.capacity + list_q.capacity

\* C6 amended: the LIR and resident-HIR entries of stack S never number more
\* than cL + cH; the HIR-NR entries are not bounded by the capacity.
C6_StackResidentBounded ==
    sel = "lirs" =>
        Cardinality(OfType(stack_s, LIR)) + Cardinality(OfType(stack_s, HIR))
            <= stack_s.capacity + list_q.capacity

\* C6 witness: stack S holds more than cL + cH entries, cL + cH of them
\* LIR or resident HIR, the others HIR-NR.
C6_Witness ==
    /\ sel = "lirs" /\ mode = "run"
    /\ Len(stack_s.list) > stack_s.capacity + list_q.capacity
    /\ Cardinality(OfType(stack_s, LIR)) + Cardinality(OfType(stack_s, HIR))
          = stack_s.capacity + list_q.capacity
    /\ OfType(stack_s, HIR_NR) # {}

\* C7: in every reachable LruCache state, set of an absent key on a full
\* cache removes exactly the resident key whose most recent set or successful
\* get is oldest; every other call removes no key but the one del names.
C7_LruEvictsOldest ==
    sel = "lru" /\ Running =>
        \A k \in Keys :
            LET before == cache.key_map
            IN  /\ \A v \in Vals(k) :
                     LET after == LruSetOp(cache, k, v).key_map
                     IN  IF k \notin before /\ Cardinality(before) = cache.capacity
                         THEN after = (before \ {Back(used)}) \cup {k}
                         ELSE after = before \cup {k}
                /\ ImplGet(cache, k).seg.key_map = before
                /\ ImplDel(cache, k).seg.key_map = before \ {k}

\* C7 witness: capacity 2, keys 1 and 3 resident with 1 the older one (as
\* after set(1); set(2); get(1); set(3)), so set(2, .) evicts key 1.
C7_Witness ==
    /\ sel = "lru" /\ cache.capacity = 2 /\ used = <<3, 1>>
    /\ LruSetOp(cache, 2, 20).key_map = {2, 3}

\* The key that set(k, v) evicts from a full LfuCache (k absent).
LfuVictims(k, v) == key_map \ LfuSetOp(frequency_list, key_map, capacity, k, v).map

MinHits == CHOOSE h \in {hits[x] : x \in key_map} : \A x \in key_map : h <= hits[x]

\* C8: the key evicted on admission into a full LfuCache has the minimum hit
\* count and is, among the keys of that count, the one put into that bucket
\* earliest: the one whose most recent set or successful get is oldest (every
\* hit splices the item to the back of a bucket, also the hit on a key whose
\* count is saturated), which below the saturated count is the key whose
\* count reached the bucket's frequency first; no other key is removed.
C8_LfuEvictsEarliestOfMin ==
    sel = "lfu" /\ Running /\ Cardinality(key_map) = capacity =>
        \A k \in Keys \ key_map : \A v \in Vals(k) :
            /\ LfuVictims(k, v) =
                  {Back(SelectSeq(used, LAMBDA x : hits[x] = MinHits))}
            /\ MinHits < FreqMax =>
                  LfuVictims(k, v) =
                      {Front(SelectSeq(entered, LAMBDA x : hits[x] = MinHits))}
            /\ LfuSetOp(frequency_list, key_map, capacity, k, v).map
                  = (key_map \ LfuVictims(k, v)) \cup {k}

\* C8 witness: a full LfuCache of capacity 2 whose two keys were both hit
\* twice, so the tie in the head bucket decides which one an admission evicts.
C8_Witness ==
    /\ sel = "lfu" /\ mode = "run" /\ capacity = 2 /\ Cardinality(key_map) = 2
    /\ \A x \in key_map : hits[x] = 2
    /\ \E k \in Keys \ key_map : LfuVictims(k, 10 * k) = {Front(entered)}

\* C9 as stated: after the LFU example's calls up to set(4, 40) on a cache of
\* capacity 2, get(3) returns 30 and get(1) returns nothing.
C9_ScriptKeeps3 ==
    pc9 = Len(LfuScript) => GetNow(3) = 30 /\ GetNow(1) = None

\* C9 amended: after those calls get(1) returns 10 and get(3) returns
\* nothing (keys 1 and 3 both have frequency 3 and key 3 reached it first).
C9_ScriptKeeps1 ==
    pc9 = Len(LfuScript) => GetNow(1) = 10 /\ GetNow(3) = None /\ GetNow(4) = 40

\* C9 witness: the example's calls have all been made.
C9_Witness == sel = "lfu" /\ capacity = 2 /\ pc9 = Len(LfuScript)

\* C10: in every reachable SlruCache state, set(k, v) of a key in neither
\* segment puts k at the front of probation, drops at most probation's back
\* entry, and leaves the protected segment exactly as it was.
C10_SlruAdmissionFrame ==
    sel = "slru" /\ Running =>
        \A k \in Keys \ (probation_seg.key_map \cup protected_seg.key_map) :
            \A v \in Vals(k) :
                LET r   == SlruSetOp(probation_seg, protected_seg, k, v)
                    old == probation_seg.kv_list
                IN  /\ r.prot = protected_seg
                    /\ r.prob.kv_list =
                          <<KeyValue(k, v)>> \o
                          (IF Len(old) >= probation_seg.capacity THEN PopBack(old) ELSE old)
                    /\ r.prob.key_map = KeysOf(r.prob.kv_list)

\* C10 witness: probation full, protected not empty, and an absent key whose
\* admission drops probation's back entry.
C10_Witness ==
    /\ sel = "slru"
    /\ Len(probation_seg.kv_list) = probation_seg.capacity
    /\ protected_seg.kv_list # <<>>
    /\ \E k \in Keys \ (probation_seg.key_map \cup protected_seg.key_map) :
          Back(probation_seg.kv_list).key
              \notin SlruSetOp(probation_seg, protected_seg, k, 10 * k).prob.key_map

\* The segment lists a hit on probation key k must produce: k (with value val)
\* at the front of protected, and protected's last entry moved to the front
\* of probation when protected would otherwise exceed its capacity.
PromotedLists(k, val) ==
    LET p1 == EraseKey(probation_seg.kv_list, k)
        q1 == <<KeyValue(k, val)>> \o protected_seg.kv_list
    IN  IF Len(q1) > protected_seg.capacity
        THEN [prob |-> <<Back(q1)>> \o p1, prot |-> PopBack(q1)]
        ELSE [prob |-> p1, prot |-> q1]

\* C11: in every reachable SlruCache state, get(k) and set(k, v) of a key k in
\* probation put k at the MRU position of protected (with value v for set),
\* move protected's LRU entry to the MRU position of probation when protected
\* then holds more than cQ entries, remove no key from the cache, and get
\* returns k's value.
C11_SlruPromotion ==
    sel = "slru" /\ Running =>
        \A k \in probation_seg.key_map :
            LET old  == NodeOf(probation_seg.kv_list, k).value
                keys == probation_seg.key_map \cup protected_seg.key_map
                g    == SlruGetOp(probation_seg, protected_seg, k)
            IN  /\ g.ret = old
                /\ g.prob.kv_list = PromotedLists(k, old).prob
                /\ g.prot.kv_list = PromotedLists(k, old).prot
                /\ g.prob.key_map = KeysOf(g.prob.kv_list)
                /\ g.prot.key_map = KeysOf(g.prot.kv_list)
                /\ g.prob.key_map \cup g.prot.key_map = keys
                /\ \A v \in Vals(k) :
                      LET r == SlruSetOp(probation_seg, protected_seg, k, v)
                      IN  /\ r.prob.kv_list = PromotedLists(k, v).prob
                          /\ r.prot.kv_list = PromotedLists(k, v).prot
                          /\ r.prob.key_map = KeysOf(r.prob.kv_list)
                          /\ r.prot.key_map = KeysOf(r.prot.kv_list)
                          /\ r.prob.key_map \cup r.prot.key_map = keys

\* C11 witness: protected is full with at least two entries and probation
\* is not empty, so a hit on the oldest probation key swaps it with
\* protected's LRU entry.
C11_Witness ==
    /\ sel = "slru" /\ mode = "run"
    /\ Len(protected_seg.kv_list) = protected_seg.capacity
    /\ protected_seg.capacity >= 2
    /\ Len(probation_seg.kv_list) >= 1
    /\ LET k == Back(probation_seg.kv_list).key
           g == SlruGetOp(probation_seg, protected_seg, k)
       IN  /\ Front(g.prot.kv_list).key = k
           /\ Front(g.prob.kv_list).key = Back(protected_seg.kv_list).key

\* The list of stack S after the S-entry of key k, if there is one, has been
\* turned into an HIR-NR entry without a value (its position kept).
Downgraded(list, k) ==
    [i \in 1..Len(list) |->
        IF list[i].key = k THEN LirsItem(k, Mono, HIR_NR) ELSE list[i]]

\* C12: in every reachable LirsCache state, set(k, v) of a key in neither S
\* nor Q makes k an LIR entry holding v at the head of S when the LIR count is
\* below cL; otherwise it first evicts Q's LRU entry if Q is full (an S-entry
\* of the evicted key becomes HIR-NR without a value and stays where it is),
\* then puts k as a resident HIR holding v at the head of Q and an HIR entry
\* referencing it at the head of S.  Nothing else changes and no assertion
\* is violated.
C12_LirsAdmission ==
    sel = "lirs" /\ Running =>
        \A k \in LirsKeys \ (stack_s.map \cup list_q.map) : \A v \in Vals(k) :
            LET r    == LirsSetOp(Lirs, k, v)
                full == Len(list_q.list) >= list_q.capacity
                lru  == Back(list_q.list).key
            IN  /\ r.fail = {}
                /\ r.s.map = stack_s.map \cup {k}
                /\ IF lirs_cnt < stack_s.capacity
                   THEN /\ r.s.list = <<LirsItem(k, ValueOf(v), LIR)>> \o stack_s.list
                        /\ r.q = list_q
                        /\ r.cnt = lirs_cnt + 1
                   ELSE /\ r.q.list = <<LirsItem(k, ValueOf(v), HIR)>> \o
                              (IF full THEN PopBack(list_q.list) ELSE list_q.list)
                        /\ r.q.map = KeysOf(r.q.list)
                        /\ r.s.list = <<LirsItem(k, IterTo(k), HIR)>> \o
                              (IF full THEN Downgraded(stack_s.list, lru)
                                       ELSE stack_s.list)
                        /\ r.cnt = lirs_cnt

\* C12 witness: cL LIR entries, list Q full, the LRU key of Q has an HIR entry
\* in S, and a key with no entry is admitted: the evicted key's S-entry is
\* HIR-NR afterwards.
C12_Witness ==
    /\ sel = "lirs" /\ mode = "run"
    /\ lirs_cnt = stack_s.capacity
    /\ Len(list_q.list) = list_q.capacity
    /\ Back(list_q.list).key \in stack_s.map
    /\ \E k \in LirsKeys \ (stack_s.map \cup list_q.map) :
          LET r == LirsSetOp(Lirs, k, 10 * k)
          IN  /\ NodeOf(r.s.list, Back(list_q.list).key).type = HIR_NR
              /\ Front(r.q.list).key = k

\* The LIR entry of a stack list that is nearest to the bottom.
BottomLir(list) ==
    list[CHOOSE i \in 1..Len(list) :
            /\ list[i].type = LIR
            /\ \A j \in (i + 1)..Len(list) : list[j].type # LIR]

\* C13: in every reachable LirsCache state, set(k, v) on a key whose S-entry
\* is HIR-NR makes that entry an LIR holding v at the head of S; if the LIR
\* count then exceeds cL, Q's LRU entry is evicted when Q is full and the
\* bottom LIR of S becomes a resident HIR at the head of Q that get still
\* retrieves; afterwards the LIR count is at most cL.
C13_HirNrToLir ==
    sel = "lirs" /\ Running =>
        \A k \in stack_s.map : \A v \in Vals(k) :
            NodeOf(stack_s.list, k).type = HIR_NR =>
                LET r == LirsSetOp(Lirs, k, v)
                    b == BottomLir(stack_s.list)
                IN  /\ Front(r.s.list) = LirsItem(k, ValueOf(v), LIR)
                    /\ r.cnt <= stack_s.capacity
                    /\ Cardinality(OfType(r.s, LIR)) <= stack_s.capacity
                    /\ lirs_cnt + 1 > stack_s.capacity =>
                          /\ Front(r.q.list) = LirsItem(b.key, b.value, HIR)
                          /\ b.key \notin r.s.map
                          /\ LirsGetOp(r, b.key).ret = b.value.x
                          /\ Len(list_q.list) >= list_q.capacity =>
                                Back(list_q.list).key \notin r.q.map

\* C13 witness: cL LIR entries, list Q full, and an HIR-NR entry in S whose
\* key is set: Q's LRU key is evicted and the bottom LIR takes its place.
C13_Witness ==
    /\ sel = "lirs" /\ mode = "run"
    /\ lirs_cnt = stack_s.capacity
    /\ Len(list_q.list) = list_q.capacity
    /\ \E k \in stack_s.map :
          /\ NodeOf(stack_s.list, k).type = HIR_NR
          /\ LET r == LirsSetOp(Lirs, k, 10 * k)
             IN  /\ Front(r.q.list).key = BottomLir(stack_s.list).key
                 /\ Back(list_q.list).key \notin r.q.map
                 /\ r.fail = {}

\* Stack S is empty or its bottom entry is an LIR.
BottomIsLir(s) == s.list = <<>> \/ Back(s.list).type = LIR

C15_LirsCountExact ==
    sel = "lirs" =>
        /\ lirs_cnt = Cardinality(OfType(stack_s, LIR))
        /\ OfType(list_q, LIR) = {}

\* C15 witness: a LirsCache in which an LIR was demoted to list Q and another
\* LIR was deleted, so the counter went up and down and is below cL.
C15_Witness ==
    /\ sel = "lirs" /\ mode = "run"
    /\ stack_s.capacity >= 2
    /\ lirs_cnt = stack_s.capacity - 1
    /\ lirs_cnt = Cardinality(OfType(stack_s, LIR))
    /\ \E k \in list_q.map : k \notin stack_s.map

\* Every key has at most one node in the list of a queue, and the queue's
\* index holds exactly the keys of the list.
QueueIndexed(qu) ==
    /\ Cardinality(qu.map) = Len(qu.list)
    /\ qu.map = KeysOf(qu.list)

\* C16: in every reachable LirsCache state every HIR entry of stack S holds
\* an iterator that designates a live entry of list Q with the same key, and
\* every entry of list Q whose key has an S-entry is the one that S-entry
\* designates, the S-entry being of type HIR; no key has two nodes in a queue.
C16_HandlesLive ==
    sel = "lirs" =>
        /\ QueueIndexed(stack_s) /\ QueueIndexed(list_q)
        /\ \A i \in 1..Len(stack_s.list) :
              LET e == stack_s.list[i]
              IN  /\ e.type = HIR =>
                        /\ e.value = IterTo(e.key)
                        /\ e.key \in list_q.map
                        /\ NodeOf(list_q.list, e.key).value.tag = "value"
                  /\ e.key \in list_q.map =>
                        e.type = HIR /\ e.value = IterTo(e.key)
                  /\ e.type = LIR => e.value.tag = "value"
                  /\ e.type = HIR_NR => e.value = Mono
        /\ \A i \in 1..Len(list_q.list) :
              /\ list_q.list[i].type = HIR
              /\ list_q.list[i].value.tag = "value"

\* C16 witness: list Q holds two entries, one referenced by an HIR entry of S
\* and one whose key has no S-entry (a demoted LIR).
C16_Witness ==
    /\ sel = "lirs" /\ mode = "run"
    /\ \E k \in list_q.map : k \in stack_s.map /\ NodeOf(stack_s.list, k).type = HIR
    /\ \E k \in list_q.map : k \notin stack_s.map

\* The keys a frequency list holds in its buckets.
BucketKeys(fl) == UNION {KeysOf(fl[i].items) : i \in 1..Len(fl)}

\* The keys stored in an LruCache, SlruCache or LfuCache, as [list, index]:
\* in the current state, after get(k), and after set(k, v).
KeysNow ==
    CASE sel = "lru"  -> [list |-> KeysOf(cache.kv_list), index |-> cache.key_map]
      [] sel = "slru" ->
            [list  |-> KeysOf(probation_seg.kv_list) \cup KeysOf(protected_seg.kv_list),
             index |-> probation_seg.key_map \cup protected_seg.key_map]
      [] sel = "lfu"  -> [list |-> BucketKeys(frequency_list), index |-> key_map]

KeysAfterGet(k) ==
    CASE sel = "lru"  ->
            LET r == ImplGet(cache, k).seg
            IN  [list |-> KeysOf(r.kv_list), index |-> r.key_map]
      [] sel = "slru" ->
            LET r == SlruGetOp(probation_seg, protected_seg, k)
            IN  [list  |-> KeysOf(r.prob.kv_list) \cup KeysOf(r.prot.kv_list),
                 index |-> r.prob.key_map \cup r.prot.key_map]
      [] sel = "lfu"  ->
            [list  |-> BucketKeys(LfuGetOp(frequency_list, key_map, k).fl),
             index |-> key_map]

KeysAfterSet(k, v) ==
    CASE sel = "lru"  ->
            LET r == LruSetOp(cache, k, v)
            IN  [list |-> KeysOf(r.kv_list), index |-> r.key_map]
      [] sel = "slru" ->
            LET r == SlruSetOp(probation_seg, protected_seg, k, v)
            IN  [list  |-> KeysOf(r.prob.kv_list) \cup KeysOf(r.prot.kv_list),
                 index |-> r.prob.key_map \cup r.prot.key_map]
      [] sel = "lfu"  ->
            LET r == LfuSetOp(frequency_list, key_map, capacity, k, v)
            IN  [list |-> BucketKeys(r.fl), index |-> r.map]

\* C17: in every reachable state of an LruCache, SlruCache or LfuCache, get(k)
\* of any key and set(k, v) of a resident key leave the set of resident keys
\* (in the lists and in the indexes) unchanged, and get returns a value
\* exactly for the resident keys.
C17_HitKeepsKeys ==
    sel \in {"lru", "slru", "lfu"} /\ Running =>
        /\ KeysNow.list = KeysNow.index
        /\ \A k \in Keys :
              /\ KeysAfterGet(k) = KeysNow
              /\ (GetNow(k) # None) = (k \in KeysNow.index)
              /\ k \in KeysNow.index =>
                    \A v \in Vals(k) : KeysAfterSet(k, v) = KeysNow

\* C17 witness: a full cache in which a hit changes the structure: an
\* SlruCache with both segments full and a key in probation whose get changes
\* the protected segment, or an LfuCache at capacity with two buckets.
C17_Witness ==
    \/ /\ sel = "slru" /\ mode = "run"
       /\ Len(probation_seg.kv_list) = probation_seg.capacity
       /\ Len(protected_seg.kv_list) = protected_seg.capacity
       /\ \E k \in probation_seg.key_map :
             /\ SlruGetOp(probation_seg, protected_seg, k).prot # protected_seg
             /\ KeysAfterGet(k) = KeysNow
    \/ /\ sel = "lfu" /\ mode = "run"
       /\ Cardinality(key_map) = capacity /\ Len(frequency_list) >= 2
       /\ \E k \in key_map :
             /\ LfuGetOp(frequency_list, key_map, k).fl # frequency_list
             /\ KeysAfterGet(k) = KeysNow

\* The keys a LirsCache state stores a value for (in S or in Q).
ValuedIn(st) ==
    {e.key : e \in {st.s.list[i] : i \in 1..Len(st.s.list)}
                   \cup {st.q.list[i] : i \in 1..Len(st.q.list)}}
    \ {k \in AllKeys :
          /\ \A i \in 1..Len(st.s.list) :
                st.s.list[i].key = k => st.s.list[i].value.tag # "value"
          /\ \A i \in 1..Len(st.q.list) :
                st.q.list[i].key = k => st.q.list[i].value.tag # "value"}

\* C18 as stated: in every LirsCache state reached without violating an
\* assertion, get(k) of any key and set(k, v) of a key that has a stored value
\* leave the set of keys with a stored value unchanged, and get still returns
\* a value for each of them.
C18_LirsHitKeepsValued ==
    sel = "lirs" /\ mode = "run" =>
        \A k \in LirsKeys :
            /\ ValuedIn(LirsGetOp(Lirs, k).st) = ValuedIn(Lirs)
            /\ k \in ValuedIn(Lirs) =>
                  \A v \in Vals(k) :
                      LET r == LirsSetOp(Lirs, k, v)
                      IN  /\ ValuedIn(r) = ValuedIn(Lirs)
                          /\ \A x \in ValuedIn(Lirs) : LirsGetOp(r, x).ret # None

\* C18, the part that holds: get(k) and set(k, v) of a key with a stored
\* value drop no key as long as the call prunes no resident HIR entry, i.e.
\* violates no assertion; a call that does violates the assertion of
\* _prune_stack_s, and then exactly the pruned resident keys are lost.
C18_LossOnlyWithPruneAssert ==
    sel = "lirs" /\ Running =>
        \A k \in LirsKeys :
            /\ LET g == LirsGetOp(Lirs, k).st
               IN  /\ ValuedIn(g) \subseteq ValuedIn(Lirs)
                   /\ g.fail = {} => ValuedIn(g) = ValuedIn(Lirs)
                   /\ g.fail \subseteq {"prune"}
            /\ k \in ValuedIn(Lirs) =>
                  \A v \in Vals(k) :
                      LET r == LirsSetOp(Lirs, k, v)
                      IN  /\ ValuedIn(r) \subseteq ValuedIn(Lirs)
                          /\ r.fail = {} => ValuedIn(r) = ValuedIn(Lirs)
                          /\ r.fail \subseteq {"prune"}
                          /\ k \in ValuedIn(r)

\* C18 witness: no assertion was violated so far, and set(k, v) on a key k
\* that has a stored value prunes a resident HIR entry from stack S: the
\* assertion of _prune_stack_s is violated and the pruned key's value is lost.
C18_Witness ==
    /\ sel = "lirs" /\ mode = "run"
    /\ \E k \in ValuedIn(Lirs) :
          LET r == LirsSetOp(Lirs, k, 10 * k)
          IN  /\ ValuedIn(r) # ValuedIn(Lirs)
              /\ r.fail = {"prune"}

\* The complete internal state of the constructed cache.
Internal ==
    CASE sel = "lru"  -> <<cache>>
      [] sel = "slru" -> <<probation_seg, protected_seg>>
      [] sel = "lfu"  -> <<frequency_list, key_map, capacity>>
      [] sel = "lirs" -> <<stack_s, list_q, lirs_cnt>>

\* The complete internal state after del(k), and after del(k); del(k).
AfterDel(k) ==
    CASE sel = "lru"  -> <<ImplDel(cache, k).seg>>
      [] sel = "slru" -> LET r == SlruDelOp(probation_seg, protected_seg, k)
                         IN  <<r.prob, r.prot>>
      [] sel = "lfu"  -> LET r == LfuDelOp(frequency_list, key_map, k)
                         IN  <<r.fl, r.map, capacity>>
      [] sel = "lirs" -> LET r == LirsDelOp(Lirs, k)
                         IN  <<r.s, r.q, r.cnt>>

AfterDelDel(k) ==
    CASE sel = "lru"  -> <<ImplDel(ImplDel(cache, k).seg, k).seg>>
      [] sel = "slru" -> LET r == SlruDelOp(probation_seg, protected_seg, k)
                             t == SlruDelOp(r.prob, r.prot, k)
                         IN  <<t.prob, t.prot>>
      [] sel = "lfu"  -> LET r == LfuDelOp(frequency_list, key_map, k)
                             t == LfuDelOp(r.fl, r.map, k)
                         IN  <<t.fl, t.map, capacity>>
      [] sel = "lirs" -> LET r == LirsDelOp(LirsDelOp(Lirs, k), k)
                         IN  <<r.s, r.q, r.cnt>>

\* C19: in every reachable state of each cache and for every key k, del(k)
\* executed twice in a row leaves the complete internal state identical to
\* del(k) executed once, and violates no assertion.
C19_DelIdempotent ==
    Running =>
        \A k \in CallKeys :
            /\ AfterDelDel(k) = AfterDel(k)
            /\ sel = "lirs" => LirsDelOp(LirsDelOp(Lirs, k), k).fail = {}

\* C19 witness: a LirsCache in which key k is a resident HIR with an S-entry
\* and another S-entry is HIR-NR; del(k) removes k from S and Q and the second
\* del(k) changes nothing.
C19_Witness ==
    /\ sel = "lirs" /\ mode = "run"
    /\ OfType(stack_s, HIR_NR) # {}
    /\ \E k \in list_q.map :
          /\ k \in stack_s.map
          /\ AfterDel(k) # Internal
          /\ AfterDelDel(k) = AfterDel(k)

\* The keys that have an entry in some internal structure of the cache.
EntryKeys ==
    CASE sel = "lru"  -> LruEntries(cache)
      [] sel = "slru" -> LruEntries(probation_seg) \cup LruEntries(protected_seg)
      [] sel = "lfu"  -> LfuEntries(frequency_list, key_map)
      [] sel = "lirs" -> LirsEntries(Lirs)

\* The complete internal state after get(k).
AfterGet(k) ==
    CASE sel = "lru"  -> <<ImplGet(cache, k).seg>>
      [] sel = "slru" -> LET r == SlruGetOp(probation_seg, protected_seg, k)
                         IN  <<r.prob, r.prot>>
      [] sel = "lfu"  -> <<LfuGetOp(frequency_list, key_map, k).fl, key_map, capacity>>
      [] sel = "lirs" -> LET r == LirsGetOp(Lirs, k).st
                         IN  <<r.s, r.q, r.cnt>>

\* C20: in every reachable state of each cache, get(k) and del(k) of a key
\* that has no entry in any internal structure violate no assertion, get
\* returns nothing, and both leave the complete internal state unchanged.
C20_MissIsNoOp ==
    Running =>
        \A k \in CallKeys \ EntryKeys :
            /\ GetNow(k) = None
            /\ AfterGet(k) = Internal
            /\ AfterDel(k) = Internal
            /\ sel = "lirs" =>
                  /\ LirsGetOp(Lirs, k).st.fail = {}
                  /\ LirsDelOp(Lirs, k).fail = {}

\* C20 witness: a LirsCache whose stack S has a resident HIR at the bottom
\* (so a prune would change it) and a key with no entry, whose get and del
\* change nothing.
C20_Witness ==
    /\ sel = "lirs" /\ mode = "run"
    /\ stack_s.list # <<>> /\ Back(stack_s.list).type # LIR
    /\ \E k \in LirsKeys \ EntryKeys :
          GetNow(k) = None /\ AfterGet(k) = Internal /\ AfterDel(k) = Internal

\* ---- C21
\* floor(capacity * ratio) for the ratio args.ratio / RatioDen in [0, 1].
FloorOfProduct ==
    CHOOSE n \in 0..args.capacity :
        n * RatioDen <= args.capacity * args.ratio
        /\ args.capacity * args.ratio < (n + 1) * RatioDen

\* The constructor arguments that the interface documents as invalid.
InvalidConfiguration ==
    \/ args.capacity = 0
    \/ /\ sel \in {"slru", "lirs"}
       /\ \/ args.ratio <= 0 \/ args.ratio >= RatioDen
          \/ FloorOfProduct = 0 \/ args.capacity - FloorOfProduct = 0

\* The capacities the constructed object holds: one for LruCache and
\* LfuCache, the two sub-capacities for SlruCache and LirsCache.
Capacities ==
    CASE sel = "lru"  -> <<cache.capacity>>
      [] sel = "slru" -> <<probation_seg.capacity, protected_seg.capacity>>
      [] sel = "lfu"  -> <<capacity>>
      [] sel = "lirs" -> <<list_q.capacity, stack_s.capacity>>

\* The default branch of the switch in _get_from_stack_s, the only throw
\* outside the constructors: taken for a type that is none of the three.
GetThrows(st, k) ==
    k \in st.s.map /\ NodeOf(st.s.list, k).type \notin {LIR, HIR, HIR_NR}

\* The object has never been used: every container is empty.
NeverCalled ==
    /\ cache.kv_list = <<>> /\ probation_seg.kv_list = <<>>
    /\ protected_seg.kv_list = <<>> /\ frequency_list = <<>>
    /\ stack_s.list = <<>> /\ list_q.list = <<>>
    /\ fail = {} /\ \A k \in AllKeys : last[k] = None

\* C21: the constructor throws exactly for capacity 0 or, for SlruCache and
\* LirsCache, a ratio <= 0 or >= 1 or a sub-capacity that comes out as 0;
\* every other construction yields capacities >= 1 that sum to the capacity
\* asked for; an exception is never raised once calls have been made, and
\* the throw in LirsCache::get is never reached.
C21_ErrorsOnlyFromConstructors ==
    /\ mode = "error" <=> InvalidConfiguration
    /\ mode = "error" => NeverCalled
    /\ mode # "error" =>
          /\ \A i \in 1..Len(Capacities) : Capacities[i] >= 1
          /\ Len(Capacities) = IF sel \in {"slru", "lirs"} THEN 2 ELSE 1
          /\ args.capacity =
                IF Len(Capacities) = 2 THEN Capacities[1] + Capacities[2]
                ELSE Capacities[1]
          /\ sel \in {"slru", "lirs"} => Capacities[1] = FloorOfProduct
    /\ sel = "lirs" /\ Running => \A k \in LirsKeys : ~GetThrows(Lirs, k)

\* SlruCache(capacity >= 1, ratio 1.0) passed the range check of _calc_size
\* and threw on the protected size 0.
C21_Witness ==
    /\ sel = "slru" /\ args.capacity >= 1 /\ args.ratio = RatioDen
    /\ mode = "error"

\* ---- C22
\* The frequency of the node whose item list holds the entry of key k.
FrequencyOf(fl, k) ==
    fl[CHOOSE i \in 1..Len(fl) : k \in KeysOf(fl[i].items)].frequency

\* C22: in LfuCache every resident key sits in exactly one node, and the
\* frequency of that node (and the item's back-reference to it) equals the
\* number of successful set and get calls on the key since its admission,
\* the admitting set included, capped at the maximum frequency.
C22_FrequencyCountsHits ==
    sel = "lfu" /\ Running =>
        \A k \in key_map :
            /\ Cardinality({i \in 1..Len(frequency_list) :
                              k \in KeysOf(frequency_list[i].items)}) = 1
            /\ FrequencyOf(frequency_list, k) = hits[k]
            /\ LfuItemOf(frequency_list, k).frequency_node = hits[k]
            /\ hits[k] >= 1 /\ hits[k] <= FreqMax

\* Two resident keys, one hit up to the cap and one admitted and hit once.
C22_Witness ==
    /\ sel = "lfu" /\ Running
    /\ \E k1, k2 \in key_map :
          /\ hits[k1] = FreqMax /\ hits[k2] = 2
          /\ FrequencyOf(frequency_list, k1) = FreqMax
          /\ FrequencyOf(frequency_list, k2) = 2

\* ---- C23
\* The frequency list is strictly increasing from head to tail, starts at
\* 1 or above, and has no node with an empty item list.
WellFormed(fl) ==
    /\ \A i \in 1..Len(fl) : fl[i].frequency >= 1 /\ fl[i].items # <<>>
    /\ \A i \in 1..(Len(fl) - 1) : fl[i].frequency < fl[i + 1].frequency

\* C23: in every reachable LfuCache state the frequency list is strictly
\* increasing in frequency with all frequencies >= 1 and no node is empty;
\* the asserts of set about the head node hold.
C23_FrequencyListWellFormed ==
    sel = "lfu" /\ Running =>
        /\ WellFormed(frequency_list)
        /\ "head" \notin fail

\* The head node has frequency 2 and the tail node the maximum frequency:
\* the frequency-2 node was inserted before the tail node, and the
\* frequency-1 node was erased when its last item left it.
C23_Witness ==
    /\ sel = "lfu" /\ Running
    /\ Len(frequency_list) >= 2
    /\ Front(frequency_list).frequency = 2
    /\ Back(frequency_list).frequency = FreqMax
    /\ \E k \in key_map : hits[k] = FreqMax

\* ---- C24
\* The keys of a bucket other than k, in order.
Others(items, k) == SelectSeq([j \in 1..Len(items) |-> items[j].key], LAMBDA x : x # k)

\* The frequencies of the nodes, head to tail.
Frequencies(fl) == [i \in 1..Len(fl) |-> fl[i].frequency]

\* What a hit on a key of the maximum-frequency node must leave behind:
\* the same nodes, the key at the back of the last one, every other item
\* where it was.
SaturatedHit(fl, r, k) ==
    /\ Frequencies(r) = Frequencies(fl)
    /\ FrequencyOf(r, k) = FreqMax
    /\ LfuItemOf(r, k).frequency_node = FreqMax
    /\ Back(Back(r).items).key = k
    /\ Others(Back(r).items, k) = Others(Back(fl).items, k)
    /\ \A i \in 1..(Len(fl) - 1) : r[i] = fl[i]

\* C24: in LfuCache a get or set that hits an entry of the node at the
\* maximum frequency creates no node, leaves the entry's frequency at the
\* maximum, moves the entry to the back of its bucket, and the key stays
\* retrievable with its value.
C24_SaturatedHitStays ==
    sel = "lfu" /\ Running =>
        \A k \in key_map :
            FrequencyOf(frequency_list, k) = FreqMax =>
                /\ LET g == LfuGetOp(frequency_list, key_map, k)
                   IN  /\ SaturatedHit(frequency_list, g.fl, k)
                       /\ g.ret = last[k]
                       /\ LfuGetOp(g.fl, key_map, k).ret = last[k]
                /\ \A v \in Vals(k) :
                      LET r == LfuSetOp(frequency_list, key_map, capacity, k, v)
                      IN  /\ SaturatedHit(frequency_list, r.fl, k)
                          /\ r.map = key_map
                          /\ LfuGetOp(r.fl, r.map, k).ret = v

\* Two keys share the node at the maximum frequency, so a hit on the front
\* one reorders the bucket.
C24_Witness ==
    /\ sel = "lfu" /\ Running
    /\ Len(frequency_list) = 1
    /\ Back(frequency_list).frequency = FreqMax
    /\ Len(Back(frequency_list).items) = 2
    /\ \A k \in key_map : hits[k] = FreqMax

\* ---- C25
\* Key k has an entry in neither stack S nor list Q.
NoEntry(st, k) ==
    /\ k \notin st.s.map /\ k \notin KeysOf(st.s.list)
    /\ k \notin st.q.map /\ k \notin KeysOf(st.q.list)

\* Key k has an HIR_NR entry in stack S.
IsHirNr(st, k) == k \in st.s.map /\ NodeOf(st.s.list, k).type = HIR_NR

\* C25 as stated: in LirsCache, after del(k) key k has no entry in stack S
\* and none in list Q, whatever its state was; del on an HIR_NR key removes
\* its S-entry.
C25_DelRemovesEveryEntry ==
    sel = "lirs" /\ Running =>
        \A k \in LirsKeys : NoEntry(LirsDelOp(Lirs, k), k)

\* C25, amended: in LirsCache, after del(k) key k holds no value: it has no
\* entry in list Q and no LIR or resident HIR entry in stack S, and get(k)
\* misses.  del on a key whose S-entry is HIR_NR changes nothing at all: the
\* S-entry stays.  del violates no assertion.
C25_DelRemovesValue ==
    sel = "lirs" /\ Running =>
        \A k \in LirsKeys :
            LET r == LirsDelOp(Lirs, k)
            IN  /\ r.fail = {}
                /\ IF IsHirNr(Lirs, k) THEN r = Lirs /\ IsHirNr(r, k)
                                       ELSE NoEntry(r, k)
                /\ k \notin ValuedIn(r)
                /\ LirsGetOp(r, k).ret = None
                /\ LirsGetOp(r, k).st = r

\* Stack S holds an HIR_NR entry, a resident HIR entry and an LIR entry.
C25_Witness ==
    /\ sel = "lirs" /\ Running
    /\ \E k1, k2, k3 \in LirsKeys :
          /\ IsHirNr(Lirs, k1)
          /\ k2 \in stack_s.map /\ NodeOf(stack_s.list, k2).type = HIR
          /\ k2 \in list_q.map
          /\ k3 \in stack_s.map /\ NodeOf(stack_s.list, k3).type = LIR

\* ---- C26
\* C26: in LirsCache, get(k) on a key whose S-entry is HIR_NR returns
\* nullopt and leaves stack S, list Q and the LIR count exactly as they
\* were: the entry is not touched, stack S is not pruned, and no assertion
\* is violated.
C26_GetHirNrIsNoOp ==
    sel = "lirs" /\ Running =>
        \A k \in LirsKeys :
            IsHirNr(Lirs, k) =>
                /\ LirsGetOp(Lirs, k).ret = None
                /\ LirsGetOp(Lirs, k).st = Lirs

\* An HIR_NR entry is at the bottom of stack S, below another entry: a
\* touch would move it and a prune would remove it.
C26_Witness ==
    /\ sel = "lirs" /\ Running
    /\ Len(stack_s.list) >= 2
    /\ Back(stack_s.list).type = HIR_NR
    /\ IsHirNr(Lirs, Back(stack_s.list).key)

\* ---- C27
\* Key k is a resident HIR with an entry in stack S: an HIR S-entry that
\* references k's entry in list Q, which holds the value.
IsHirInS(st, k) ==
    /\ k \in st.s.map /\ NodeOf(st.s.list, k).type = HIR
    /\ k \in st.q.map /\ NodeOf(st.q.list, k).value.tag = "value"

\* What a hit on such a key must leave behind in state r, where val is
\* the value k then holds: k an LIR at the head of S and out of Q; when the
\* LIR count was at cL already, the previous bottom LIR of S at the head of
\* Q as a resident HIR with its value.
HirHit(st, r, k, val) ==
    LET b == BottomLir(st.s.list)
    IN  /\ r.s.list # <<>>
        /\ Front(r.s.list) = LirsItem(k, ValueOf(val), LIR)
        /\ k \notin r.q.map /\ k \notin KeysOf(r.q.list)
        /\ Cardinality({i \in 1..Len(r.s.list) : r.s.list[i].key = k}) = 1
        /\ IF st.cnt + 1 > st.s.capacity
           THEN /\ OfType(st.s, LIR) # {} /\ r.q.list # <<>>
                /\ Front(r.q.list) = LirsItem(b.key, b.value, HIR)
                /\ b.value.tag = "value"
                /\ b.key \notin r.s.map /\ b.key \notin KeysOf(r.s.list)
                /\ r.cnt = st.s.capacity
           ELSE r.cnt = st.cnt + 1

\* C27: in LirsCache, get(k) or set(k, v) on a key that is HIR in stack S
\* with its value in list Q leaves k as an LIR entry at the head of S
\* holding its value (v for set) and with no entry in Q; if the LIR count
\* would exceed cL, the previous bottom LIR of S becomes the head of Q with
\* type HIR and keeps its value; get returns k's value.
C27_ResidentHirHit ==
    sel = "lirs" /\ Running =>
        \A k \in LirsKeys :
            IsHirInS(Lirs, k) =>
                /\ LET g == LirsGetOp(Lirs, k)
                   IN  /\ HirHit(Lirs, g.st, k, NodeOf(list_q.list, k).value.x)
                       /\ g.ret = NodeOf(list_q.list, k).value.x
                       /\ g.ret = last[k]
                /\ \A v \in Vals(k) : HirHit(Lirs, LirsSetOp(Lirs, k, v), k, v)

\* A resident HIR with an S-entry, the LIR set at cL and another entry in
\* list Q: the hit demotes the bottom LIR to the head of a non-empty Q.
C27_Witness ==
    /\ sel = "lirs" /\ Running
    /\ lirs_cnt = stack_s.capacity
    /\ Len(list_q.list) = 2
    /\ \E k \in LirsKeys : IsHirInS(Lirs, k)

\* ---- C28
\* Key k has an entry in list Q and none in stack S.
IsQOnly(st, k) ==
    /\ k \in st.q.map /\ k \in KeysOf(st.q.list)
    /\ k \notin st.s.map /\ k \notin KeysOf(st.s.list)

\* What a hit on such a key must leave behind in state r, where val is
\* the value k then holds: k's Q entry at the head of Q, one new HIR entry
\* for k at the head of S that references it, everything else as it was.
QOnlyHit(st, r, k, val) ==
    /\ r.q.list = <<LirsItem(k, ValueOf(val), HIR)>> \o EraseKey(st.q.list, k)
    /\ r.q.map = st.q.map /\ r.q.capacity = st.q.capacity
    /\ r.s.list = <<LirsItem(k, IterTo(k), HIR)>> \o st.s.list
    /\ r.s.map = st.s.map \cup {k} /\ r.s.capacity = st.s.capacity
    /\ r.cnt = st.cnt
    /\ r.fail = {}

\* C28: in LirsCache, get(k) or set(k, v) on a key that is in list Q but
\* not in stack S keeps k in Q and moves it to the head of Q, inserts one
\* new HIR entry for k at the head of S referencing that Q entry, adds or
\* removes no other entry, leaves the LIR count unchanged, and get returns
\* k's value.
C28_QOnlyHit ==
    sel = "lirs" /\ Running =>
        \A k \in LirsKeys :
            IsQOnly(Lirs, k) =>
                /\ NodeOf(list_q.list, k).type = HIR
                /\ NodeOf(list_q.list, k).value.tag = "value"
                /\ LET g == LirsGetOp(Lirs, k)
                   IN  /\ QOnlyHit(Lirs, g.st, k, NodeOf(list_q.list, k).value.x)
                       /\ g.ret = NodeOf(list_q.list, k).value.x
                       /\ g.ret = last[k]
                /\ \A v \in Vals(k) : QOnlyHit(Lirs, LirsSetOp(Lirs, k, v), k, v)

\* The key at the back of a two-entry list Q has no S-entry and stack S is
\* not empty: the hit reorders Q and grows S.
C28_Witness ==
    /\ sel = "lirs" /\ Running
    /\ Len(list_q.list) = 2
    /\ IsQOnly(Lirs, Back(list_q.list).key)
    /\ Len(stack_s.list) >= 2

\* ---- C29
\* The states in which _move_lru_lir_to_list_q is entered by some call made
\* on the current object: a get or set that hits a resident HIR of stack S
\* (lines 231-238, 363-371) and a set that hits an HIR_NR entry
\* (lines 375-387), each when the LIR count then exceeds cL.
DemotionEntries ==
    {e \in {MoveHirToStackS(Lirs, k) :
              k \in {x \in stack_s.map : NodeOf(stack_s.list, x).type = HIR}}
           \cup
           UNION {{LET h == HirNrToLir(Lirs, k, v)
                   IN  IF h.cnt > h.s.capacity /\ QIsFull(h.q)
                       THEN RemoveLruHirItem(h) ELSE h : v \in Vals(k)} :
                  k \in {x \in stack_s.map : NodeOf(stack_s.list, x).type = HIR_NR}} :
        e.cnt > e.s.capacity}

\* The labels of the asserts that guard the demotion.
DemotionAsserts == {"q_full", "demote_cnt", "demote_bottom", "demote_exit"}

\* C29: in LirsCache, whenever _move_lru_lir_to_list_q is entered, the LIR
\* count is cL + 1, list Q holds fewer than cH entries, and stack S after
\* pruning is non-empty with an LIR at its bottom; on exit the LIR count
\* is cL.  No call violates one of the asserts that say so.
C29_DemotionPreconditions ==
    sel = "lirs" /\ Running =>
        /\ \A e \in DemotionEntries :
              /\ e.cnt = e.s.capacity + 1
              /\ Len(e.q.list) < e.q.capacity
              /\ PruneStackS(e).s.list # <<>>
              /\ Back(PruneStackS(e).s.list).type = LIR
              /\ MoveLruLirToListQ(e).cnt = e.s.capacity
              /\ MoveLruLirToListQ(e).fail \cap DemotionAsserts = {}
        /\ \A k \in LirsKeys :
              /\ LirsGetOp(Lirs, k).st.fail \cap DemotionAsserts = {}
              /\ \A v \in Vals(k) : LirsSetOp(Lirs, k, v).fail \cap DemotionAsserts = {}
        /\ fail \cap DemotionAsserts = {}

\* The LIR set is at cL, list Q is full, and stack S holds both a resident
\* HIR and an HIR_NR entry: a hit on either enters the demotion, the
\* second after an eviction from Q.
C29_Witness ==
    /\ sel = "lirs" /\ Running
    /\ lirs_cnt = stack_s.capacity
    /\ Len(list_q.list) = list_q.capacity
    /\ \E k1, k2 \in stack_s.map :
          /\ NodeOf(stack_s.list, k1).type = HIR
          /\ NodeOf(stack_s.list, k2).type = HIR_NR
    /\ Cardinality(DemotionEntries) >= 2

\* ---- C30
\* The entries that _prune_stack_s removes from stack S, bottom first.
RECURSIVE Pruned(_)
Pruned(s) ==
    IF ~ShouldPrune(s) THEN <<>>
    ELSE <<Back(s.list)>> \o Pruned(QRemove(s, Back(s.list).key))

\* The states in which the trailing _prune_stack_s of a get or set is
\* entered by some call on the current object whose key has an LIR entry
\* in stack S (lines 222-226 and 353-357, then 250 and 396).
PruneEntries ==
    {[Lirs EXCEPT !.s = QTouch(stack_s, k)] :
        k \in {x \in stack_s.map : NodeOf(stack_s.list, x).type = LIR}}

\* C30: in LirsCache, every entry that _prune_stack_s removes from the
\* bottom of stack S has type HIR_NR, so the assertion in its loop holds in
\* every call and pruning leaves list Q as it is.
C30_PruneRemovesOnlyHirNr ==
    sel = "lirs" /\ mode = "run" =>
        /\ \A e \in PruneEntries :
              /\ \A i \in 1..Len(Pruned(e.s)) : Pruned(e.s)[i].type = HIR_NR
              /\ PruneStackS(e).q = e.q
        /\ \A k \in LirsKeys :
              /\ "prune" \notin LirsGetOp(Lirs, k).st.fail
              /\ \A v \in Vals(k) : "prune" \notin LirsSetOp(Lirs, k, v).fail

\* A build with assertions enabled has stopped at the assertion of
\* _prune_stack_s, on the first call that violated any assertion.
C30_Witness ==
    /\ sel = "lirs" /\ mode = "aborted"
    /\ fail = {"prune"}
    /\ \E e \in PruneEntries :
          \E i \in 1..Len(Pruned(e.s)) : Pruned(e.s)[i].type = HIR

\* ---- C31
\* The payload of an entry of stack S matches its type: an LIR holds a
\* value and has no entry in list Q, an HIR holds the handle of its own
\* entry in Q, an HIR_NR holds nothing and has no entry in Q.
PayloadInS(st, e) ==
    CASE e.type = LIR    -> e.value.tag = "value" /\ e.key \notin KeysOf(st.q.list)
      [] e.type = HIR    -> /\ e.value = IterTo(e.key)
                            /\ e.key \in st.q.map /\ e.key \in KeysOf(st.q.list)
      [] e.type = HIR_NR -> e.value = Mono /\ e.key \notin KeysOf(st.q.list)
      [] OTHER           -> FALSE

\* Every entry of list Q is a resident HIR holding a value.
PayloadInQ(e) == e.type = HIR /\ e.value.tag = "value"

\* The labels of the asserts in _to_value and _to_iterator.
AlternativeAsserts == {"to_value", "to_iterator"}

\* C31: in LirsCache, in every state between operations, LIR entries are
\* only in stack S and hold a value, HIR entries of S hold a handle into
\* list Q, HIR_NR entries are only in S and hold nothing, every entry of Q
\* has type HIR and holds a value; _to_value and _to_iterator never see the
\* wrong alternative.
C31_PayloadMatchesType ==
    sel = "lirs" /\ Running =>
        /\ \A i \in 1..Len(stack_s.list) : PayloadInS(Lirs, stack_s.list[i])
        /\ \A i \in 1..Len(list_q.list) : PayloadInQ(list_q.list[i])
        /\ fail \cap AlternativeAsserts = {}
        /\ \A k \in LirsKeys :
              /\ LirsGetOp(Lirs, k).st.fail \cap AlternativeAsserts = {}
              /\ LirsDelOp(Lirs, k).fail \cap AlternativeAsserts = {}
              /\ \A v \in Vals(k) : LirsSetOp(Lirs, k, v).fail \cap AlternativeAsserts = {}

\* No assertion was violated so far, stack S holds an entry of each type
\* above an LIR bottom, and list Q holds the value of the resident HIR.
C31_Witness ==
    /\ sel = "lirs" /\ mode = "run"
    /\ \A t \in {LIR, HIR, HIR_NR} : OfType(stack_s, t) # {}
    /\ Back(stack_s.list).type = LIR
    /\ \E k \in list_q.map : k \in stack_s.map /\ NodeOf(list_q.list, k).value.tag = "value"

\* ---- C32
\* The index of a segment and its list hold the same keys, each once.
SegmentIndexed(seg) ==
    /\ Cardinality(seg.key_map) = Len(seg.kv_list)
    /\ seg.key_map = KeysOf(seg.kv_list)

\* The number of items in all buckets of the frequency list.
RECURSIVE ItemCount(_)
ItemCount(fl) == IF fl = <<>> THEN 0 ELSE Len(Front(fl).items) + ItemCount(PopFront(fl))

\* The index of LfuCache and the buckets taken together hold the same keys,
\* each once, and every item's frequency_node designates the node whose
\* bucket holds it.
LfuIndexed(fl, map) ==
    /\ Cardinality(map) = ItemCount(fl)
    /\ map = BucketKeys(fl)
    /\ \A i \in 1..Len(fl) : \A j \in 1..Len(fl[i].items) :
          fl[i].items[j].frequency_node = fl[i].frequency
    /\ \A i, j \in 1..Len(fl) : fl[i].frequency = fl[j].frequency => i = j

\* C32: in every reachable state of every cache, each ordered structure
\* (the LRU list, each SLRU segment, the LFU buckets taken together, LIRS
\* stack S and list Q) and its key index hold exactly the same keys, each
\* exactly once; in LFU each item's frequency_node designates the node
\* whose bucket holds the item.
C32_IndexMatchesEntries ==
    CASE sel = "lru"  -> SegmentIndexed(cache)
      [] sel = "slru" -> SegmentIndexed(probation_seg) /\ SegmentIndexed(protected_seg)
      [] sel = "lfu"  -> LfuIndexed(frequency_list, key_map)
      [] sel = "lirs" -> QueueIndexed(stack_s) /\ QueueIndexed(list_q)

\* LirsCache after entries have moved both ways between the queues: list Q
\* is full with two entries, one of them a demoted LIR without S-entry
\* and the other referenced by an HIR entry of stack S.
C32_Witness ==
    /\ sel = "lirs" /\ Running
    /\ Len(list_q.list) = 2 /\ list_q.capacity = 2
    /\ Len(stack_s.list) >= 2
    /\ \E k \in list_q.map : k \notin stack_s.map
    /\ \E k \in list_q.map : k \in stack_s.map

\* ---- C33
\* The keys of a segment, from its list and from its index.
SegmentKeys(seg) == seg.key_map \cup KeysOf(seg.kv_list)

\* C33: in every reachable SlruCache state no key is present in both the
\* probation segment and the protected segment; no set, get or del call
\* leaves a key in both.
C33_SegmentsDisjoint ==
    sel = "slru" /\ Running =>
        /\ SegmentKeys(probation_seg) \cap SegmentKeys(protected_seg) = {}
        /\ \A k \in Keys :
              /\ LET g == SlruGetOp(probation_seg, protected_seg, k)
                 IN  SegmentKeys(g.prob) \cap SegmentKeys(g.prot) = {}
              /\ \A v \in Vals(k) :
                    LET r == SlruSetOp(probation_seg, protected_seg, k, v)
                    IN  SegmentKeys(r.prob) \cap SegmentKeys(r.prot) = {}

\* The protected segment is full, and the probation segment holds a key:
\* a hit on it promotes it and moves the protected LRU key to probation.
C33_Witness ==
    /\ sel = "slru" /\ Running
    /\ Len(protected_seg.kv_list) = protected_seg.capacity
    /\ protected_seg.capacity = 2
    /\ probation_seg.kv_list # <<>>

\* ---- C34
\* A LirsCache on which only set and get are called.
NextLirsNoDel ==
    \/ \E k \in LirsKeys : \E v \in Vals(k) : LirsSet(k, v)
    \/ \E k \in LirsKeys : LirsGet(k)

SpecLirsNoDel == InitLirs /\ [][NextLirsNoDel]_vars

\* The object is as the constructor left it.
AsConstructed ==
    /\ stack_s.list = <<>> /\ stack_s.map = {}
    /\ list_q.list = <<>> /\ list_q.map = {}
    /\ lirs_cnt = 0 /\ fail = {} /\ mode = "run"

\* C34: on a LirsCache that is only given set and get calls, after every
\* completed call stack S is non-empty once any key has been set, and its
\* bottom entry has type LIR: S is empty only while the object is as
\* constructed, every set leaves S non-empty with an LIR bottom, and every
\* get leaves S as non-empty as it was, with an LIR bottom.
C34_NoDelBottomLir ==
    sel = "lirs" /\ Running =>
        /\ IF stack_s.list = <<>> THEN AsConstructed
                                  ELSE Back(stack_s.list).type = LIR
        /\ \A k \in LirsKeys :
              /\ LET g == LirsGetOp(Lirs, k).st.s
                 IN  IF stack_s.list = <<>> THEN g.list = <<>>
                     ELSE g.list # <<>> /\ Back(g.list).type = LIR
              /\ \A v \in Vals(k) :
                    LET r == LirsSetOp(Lirs, k, v).s
                    IN  r.list # <<>> /\ Back(r.list).type = LIR

\* The LIR set is full, list Q is full, and stack S holds three entries,
\* an HIR_NR one among them, above its LIR bottom: a key was evicted from Q.
C34_Witness ==
    /\ sel = "lirs" /\ Running
    /\ lirs_cnt = stack_s.capacity
    /\ Len(list_q.list) = list_q.capacity
    /\ OfType(stack_s, HIR_NR) # {}
    /\ Len(stack_s.list) = 3
    /\ Back(stack_s.list).type = LIR

====
